---- MODULE Spec2Model ----
(***************************************************************************)
(* Model of the conversion engine of macan-media-player                    *)
(* (src/core/converter.py): the shared FFmpeg runner of a conversion task  *)
(* (_BaseConverter), the task's run() (AudioConverter / VideoConverter)    *)
(* and the BatchRunner, with the threads that call stop() on them and the  *)
(* child process as the environment.                                       *)
(*                                                                         *)
(* Granularity.  One action is one statement (or one run of statements     *)
(* touching no shared state) of one thread.  The diagnostic stream is a    *)
(* sequence of tokens: a token is either a line terminator or a chunk of   *)
(* text holding one marker time=HH:MM:SS.  The read loop of _run_ffmpeg    *)
(* reads one character per iteration; the iterations inside one chunk do   *)
(* nothing but append to the buffer, so one iteration of the model's loop  *)
(* reads one token.  kill() is modelled as taking effect at once.          *)
(***************************************************************************)
EXTENDS Integers, Sequences, FiniteSets, TLC

\* ------------------------------------------------------------------ bounds
NTasks == 2      \* tasks of the batch
MaxEmit == 4     \* tokens the child of a task run on its own may write
MaxBatchEmit == 1  \* tokens the children of a batch may write in total
MaxStops == 2    \* calls of a task's stop() made by the cancelling thread
MaxBatchStops == 1  \* calls of BatchRunner.stop() made by that thread
NJobTasks == 1    \* tasks of each of the runners that run concurrently
MaxJobStops == 1  \* calls of stop() made on each of those runners
MaxCalls == 2     \* calls of converter_start and converter_cancel

\* --------------------------------------------------------- program constants
Killed == -9     \* returncode of a child ended by Popen.kill()
PctCap == 99     \* the cap of a running task's percentage

Tasks == 1..NTasks

\* ------------------------------------------------------------- environment
NL == [k |-> "nl", h |-> 0, m |-> 0, s |-> 0]
TimeTok(h, m, s) == [k |-> "time", h |-> h, m |-> m, s |-> s]

\* What a child may write: a terminator, or text with a marker.
Tokens == {NL, TimeTok(0, 0, 1), TimeTok(1, 1, 1)}
\* The batch runs are checked with a smaller alphabet.
BatchTokens == {NL, TimeTok(0, 0, 1)}

\* Result of _get_duration: <<>> is None, <<d>> is d seconds.
Durations == {<<>>, <<0>>, <<2>>, <<3661>>}
BatchDurations == {<<2>>}

ExitCodes == {0, 1, 2}
BatchExitCodes == {0, 1}
SpawnResults == {"ok", "FileNotFoundError", "OSError"}
BatchSpawnResults == {"ok", "OSError"}

\* input_path of task t, as its components; the file name is the last one.
InputPath(t) == <<"in", IF t = 1 THEN "a.wav" ELSE IF t = 2 THEN "b.wav" ELSE "c.wav">>
Basename(p) == p[Len(p)]

\* ------------------------------------------------------------------- state
VARIABLES
    pc,         \* pc[t]: where the thread running task t's run() stands
    stopFlag,   \* stopFlag[t]: task t's _stop event
    proc,       \* proc[t]: _proc: "none" (None), "alive", "exited"
    code,       \* code[t]: the child's return code once it has exited
    pipe,       \* pipe[t]: tokens written by the child and not yet read
    budget,     \* tokens the children may still write
    buffer,     \* buffer[t]: the local line buffer of _run_ffmpeg
    dur,        \* dur[t]: total_duration
    exit_code,  \* exit_code[t]: the local exit_code: <<>> until line 152
    bpc,        \* where the BatchRunner's worker stands
    batchStop,  \* BatchRunner._stop_event
    cur,        \* BatchRunner._current_task (0 is None)
    idx,        \* the worker's loop index i (0-based)
    ok,         \* the worker's local ok
    fail,       \* the worker's local fail
    ntasks,     \* len(self._tasks): the tasks the BatchRunner was given
    spc,        \* where the cancelling thread stands
    starget,    \* the task whose stop() the cancelling thread is in
    nstops,     \* stop() calls made so far
    history,    \* callbacks made so far, and the moments a flag was first set
    stopAt,     \* stopAt[t]: pc[t] when stopFlag[t] was first set
    stopDuring, \* the task inside run() when BatchRunner.stop() was called
    rpc,        \* rpc[j]: where the worker of runner j stands
    rstop,      \* rstop[j]: runner j's _stop_event
    rcur,       \* rcur[j]: runner j's _current_task (0 is None)
    ridx,       \* ridx[j]: the loop index i of runner j's worker
    rok,        \* rok[j]: the local ok of runner j's worker
    rtask,      \* rtask[j][t]: task t of runner j: its line, _stop, _proc, code
    revents,    \* revents[j]: the callbacks made for runner j, in order
    rspc,       \* rspc[j]: where the thread calling runner j's stop() stands
    rstarget,   \* rstarget[j]: the task whose stop() that thread is in
    rnstops,    \* rnstops[j]: calls of runner j's stop() made so far
    opts,       \* the fields of a constructed VideoConverter
    args,       \* the list _build_args returned
    apc,        \* "new" until _build_args has been called, then "built"
    hasJobs,    \* the bridge has its attribute _converter_jobs
    registry,   \* registry[id]: the runner _converter_jobs maps id to
    rid,        \* rid[j]: the job_id runner j's callbacks were made with
    rout,       \* rout[j][t]: the output path of task t of runner j
    cpc,        \* cpc[j]: where the converter_cancel that stops runner j stands
    cid,        \* cid[j]: the job_id that converter_cancel was called with
    apiret,     \* what the last bridge call to return has returned
    ncalls      \* bridge calls made so far

taskVars == <<pc, stopFlag, proc, code, pipe, budget, buffer, dur, exit_code>>
batchVars == <<bpc, batchStop, cur, idx, ok, fail, ntasks>>
stopVars == <<spc, starget, nstops>>
histVars == <<history, stopAt, stopDuring>>
jobsVars ==
    <<rpc, rstop, rcur, ridx, rok, rtask, revents, rspc, rstarget, rnstops>>
buildVars == <<opts, args, apc>>
\* What the specifications of one task and of one batch leave alone.
bridgeVars == <<hasJobs, registry, rid, rout, cpc, cid, apiret, ncalls>>
restVars == <<jobsVars, buildVars, bridgeVars>>
vars == <<taskVars, batchVars, stopVars, histVars, restVars>>

\* ------------------------------------------------------------------ events
Ev(kind, t, a, b, okv, msg) ==
    [kind |-> kind, task |-> t, a |-> a, b |-> b, ok |-> okv, msg |-> msg]
\* progress_cb(pct, status) of task t
Progress(t, pct, status) == Ev("progress", t, pct, 0, FALSE, status)
\* done_cb(success, message) of task t; n is the number in the message
Done(t, okv, msg, n) == Ev("done", t, n, 0, okv, msg)
\* item_start_cb(index, total, filename)
ItemStart(t, i, total, fname) == Ev("item_start", t, i, total, FALSE, fname)
\* all_done_cb(ok, fail)
AllDone(o, f) == Ev("all_done", 0, o, f, FALSE, "")
\* the moment task t's flag (t = 0: the batch's flag) was first set
StopMark(t) == Ev("stop", t, 0, 0, FALSE, "")

MsgCancelled == "Conversion cancelled."
MsgComplete == "Conversion complete."
MsgExit == "FFmpeg exited with code N."
MsgNotFound == "ffmpeg not found. Please place ffmpeg.exe next to the application."
MsgSpawn == "Failed to start ffmpeg: e"

\* --------------------------------------------------------------- functions
Min(a, b) == IF a < b THEN a ELSE b

\* h * 3600 + mn * 60 + s
Seconds(tok) == tok.h * 3600 + tok.m * 60 + tok.s

\* Pct without its cap.
PctNoCap(current, total) == (current * 100) \div total

\* Pct capped at 100 instead of 99.
PctCapHundred(current, total) == Min((current * 100) \div total, 100)

\* min(int(current / total_duration * 100), 99).  The float quotient differs
\* from the exact one only by rounding; for every current and total of this
\* model int() of it is the exact floor, or is past the cap with it.
Pct(current, total) == Min((current * 100) \div total, PctCap)

\* TIME_RE.search(buffer): the first marker of the buffer, <<>> if none
FirstMarker(buf) ==
    LET hits == {i \in 1..Len(buf) : buf[i].k = "time"}
    IN  IF hits = {} THEN <<>>
        ELSE <<buf[CHOOSE i \in hits : \A j \in hits : i <= j]>>

\* `if total_duration and total_duration > 0`
DurationKnown(d) == d # <<>> /\ d[1] # 0 /\ d[1] > 0

\* LineEvents with `if total_duration is not None`, a total of 0 reported as
\* the cap.
LineEventsZeroTotal(t, buf, d) ==
    IF d # <<>> /\ FirstMarker(buf) # <<>>
    THEN <<Progress(t, IF d[1] = 0 THEN PctCap
                       ELSE Pct(Seconds(FirstMarker(buf)[1]), d[1]),
                    "Converting... %")>>
    ELSE <<>>

\* The events of one completed line: progress_cb(pct, 'Converting... pct%')
LineEvents(t, buf, d) ==
    IF DurationKnown(d) /\ FirstMarker(buf) # <<>>
    THEN <<Progress(t, Pct(Seconds(FirstMarker(buf)[1]), d[1]), "Converting... %")>>
    ELSE <<>>

\* -------------------------------------------------------------------- Init
\* No second BatchRunner has been constructed.
NoJobs ==
    /\ rpc = <<>> /\ rstop = <<>> /\ rcur = <<>> /\ ridx = <<>> /\ rok = <<>>
    /\ rtask = <<>> /\ revents = <<>>
    /\ rspc = <<>> /\ rstarget = <<>> /\ rnstops = <<>>

\* No bridge.
NoBridge ==
    /\ hasJobs = FALSE /\ registry = <<>> /\ rid = <<>> /\ rout = <<>>
    /\ cpc = <<>> /\ cid = <<>> /\ apiret = <<>> /\ ncalls = 0

\* No VideoConverter has been constructed for its argument list.
NoBuild == opts = <<>> /\ args = <<>> /\ apc = "none"

\* After construction: _stop clear, _proc None (lines 97-98, 396-398).
TaskInit ==
    /\ pc = [t \in Tasks |-> "idle"]
    /\ stopFlag = [t \in Tasks |-> FALSE]
    /\ proc = [t \in Tasks |-> "none"]
    /\ code = [t \in Tasks |-> 0]
    /\ pipe = [t \in Tasks |-> <<>>]
    /\ buffer = [t \in Tasks |-> <<>>]
    /\ dur = [t \in Tasks |-> <<>>]
    /\ exit_code = [t \in Tasks |-> <<>>]
    /\ batchStop = FALSE
    /\ cur = 0
    /\ idx = 0
    /\ ok = 0
    /\ fail = 0
    /\ spc = "idle"
    /\ starget = 0
    /\ nstops = 0
    /\ history = <<>>
    /\ stopAt = [t \in Tasks |-> "never"]
    /\ stopDuring = 0

\* A task run directly by its caller, no BatchRunner.
Init ==
    /\ TaskInit
    /\ bpc = "direct"
    /\ budget = MaxEmit
    /\ ntasks = 0
    /\ NoJobs
    /\ NoBridge
    /\ NoBuild

\* A BatchRunner constructed over a list of tasks, which may be empty, and
\* not yet started.
BatchInit ==
    /\ TaskInit
    /\ bpc = "new"
    /\ budget = MaxBatchEmit
    /\ ntasks \in 0..NTasks
    /\ NoJobs
    /\ NoBridge
    /\ NoBuild

Emit(e) == history' = Append(history, e)

\* ------------------------------------------------------ the task: run()
\* Run for a task that gives up when the duration probe fails.
RunProbeFatal(t, D) ==
    /\ pc[t] = "idle"
    /\ \/ bpc = "direct" /\ t = 1
       \/ bpc = "l417" /\ t = idx + 1
    /\ \E d \in D :
          /\ dur' = [dur EXCEPT ![t] = d]
          /\ IF d = <<>>
             THEN /\ history' = history \o <<Progress(t, 0, "Getting info..."),
                                              Done(t, FALSE, "No duration.", 0)>>
                  /\ pc' = [pc EXCEPT ![t] = "ret"]
             ELSE /\ Emit(Progress(t, 0, "Getting info..."))
                  /\ pc' = [pc EXCEPT ![t] = "l113"]
    /\ UNCHANGED <<stopFlag, proc, code, pipe, budget, buffer, exit_code>>
    /\ UNCHANGED <<batchVars, stopVars, stopAt, stopDuring>>
    /\ UNCHANGED restVars

\* Run for a task that clears its cancellation flag when it starts.
RunClearsStop(t, D) ==
    /\ pc[t] = "idle"
    /\ \/ bpc = "direct" /\ t = 1
       \/ bpc = "l417" /\ t = idx + 1
    /\ \E d \in D : dur' = [dur EXCEPT ![t] = d]
    /\ stopFlag' = [stopFlag EXCEPT ![t] = FALSE]
    /\ Emit(Progress(t, 0, "Getting info..."))
    /\ pc' = [pc EXCEPT ![t] = "l113"]
    /\ UNCHANGED <<proc, code, pipe, budget, buffer, exit_code>>
    /\ UNCHANGED <<batchVars, stopVars, stopAt, stopDuring>>
    /\ UNCHANGED restVars

\* AudioConverter.run / VideoConverter.run up to the call of _run_ffmpeg:
\* progress_cb(0, 'Getting ... info...'), then the duration probe.  The task
\* is run by its caller, or by the batch worker standing at line 417.
Run(t, D) ==
    /\ pc[t] = "idle"
    /\ \/ bpc = "direct" /\ t = 1
       \/ bpc = "l417" /\ t = idx + 1
    /\ \E d \in D : dur' = [dur EXCEPT ![t] = d]
    /\ Emit(Progress(t, 0, "Getting info..."))
    /\ pc' = [pc EXCEPT ![t] = "l113"]
    /\ UNCHANGED <<stopFlag, proc, code, pipe, budget, buffer, exit_code>>
    /\ UNCHANGED <<batchVars, stopVars, stopAt, stopDuring>>
    /\ UNCHANGED restVars

\* Popen whose failure branches report and then go on into the read loop.
PopenFallsThrough(t, S) ==
    /\ pc[t] = "l113"
    /\ \E r \in S :
        \/ /\ r = "ok"
           /\ proc' = [proc EXCEPT ![t] = "alive"]
           /\ UNCHANGED history
        \/ /\ r = "FileNotFoundError"
           /\ Emit(Done(t, FALSE, MsgNotFound, 0))
           /\ UNCHANGED proc
        \/ /\ r = "OSError"
           /\ Emit(Done(t, FALSE, MsgSpawn, 0))
           /\ UNCHANGED proc
    /\ pc' = [pc EXCEPT ![t] = "l130"]
    /\ UNCHANGED <<stopFlag, code, pipe, budget, buffer, dur, exit_code>>
    /\ UNCHANGED <<batchVars, stopVars, stopAt, stopDuring>>
    /\ UNCHANGED restVars

\* Lines 112-126: Popen; a spawn failure reports through done_cb and returns.
Popen(t, S) ==
    /\ pc[t] = "l113"
    /\ \E r \in S :
        \/ /\ r = "ok"
           /\ proc' = [proc EXCEPT ![t] = "alive"]
           /\ pc' = [pc EXCEPT ![t] = "l130"]
           /\ UNCHANGED history
        \/ /\ r = "FileNotFoundError"
           /\ Emit(Done(t, FALSE, MsgNotFound, 0))
           /\ pc' = [pc EXCEPT ![t] = "ret"]
           /\ UNCHANGED proc
        \/ /\ r = "OSError"
           /\ Emit(Done(t, FALSE, MsgSpawn, 0))
           /\ pc' = [pc EXCEPT ![t] = "ret"]
           /\ UNCHANGED proc
    /\ UNCHANGED <<stopFlag, code, pipe, budget, buffer, dur, exit_code>>
    /\ UNCHANGED <<batchVars, stopVars, stopAt, stopDuring>>
    /\ UNCHANGED restVars

\* KillIfAlive without the test of poll(): the process is signalled and
\* marked killed whatever its state.
KillAlways(t) ==
    /\ proc' = [proc EXCEPT ![t] = "exited"]
    /\ code' = [code EXCEPT ![t] = Killed]

\* _BaseConverter.stop's effect on the process (lines 102-106):
\* kill it if there is one and it has not exited.
KillIfAlive(t) ==
    IF proc[t] = "alive"
    THEN /\ proc' = [proc EXCEPT ![t] = "exited"]
         /\ code' = [code EXCEPT ![t] = Killed]
    ELSE UNCHANGED <<proc, code>>

\* CancelSeen for a loop that never looks at the flag.
CancelNeverSeen(t) == FALSE

\* Line 130: the loop's test of the cancellation flag.
CancelSeen(t) == stopFlag[t]

\* Lines 130-131: the top of the read loop; with the flag set, self.stop().
LoopTop(t) ==
    /\ pc[t] = "l130"
    /\ IF CancelSeen(t)
       THEN /\ KillIfAlive(t)
            /\ pc' = [pc EXCEPT ![t] = "l132"]
       ELSE /\ pc' = [pc EXCEPT ![t] = "l135"]
            /\ UNCHANGED <<proc, code>>
    /\ UNCHANGED <<stopFlag, pipe, budget, buffer, dur, exit_code>>
    /\ UNCHANGED <<batchVars, stopVars, histVars>>
    /\ UNCHANGED restVars

\* CancelInLoop without its return: the loop's cancellation falls through to
\* the code after the loop.
CancelInLoopNoReturn(t) ==
    /\ pc[t] = "l132"
    /\ Emit(Done(t, FALSE, MsgCancelled, 0))
    /\ pc' = [pc EXCEPT ![t] = "l151"]
    /\ UNCHANGED <<stopFlag, proc, code, pipe, budget, buffer, dur, exit_code>>
    /\ UNCHANGED <<batchVars, stopVars, stopAt, stopDuring>>
    /\ UNCHANGED restVars

\* Lines 132-133: done_cb(False, 'Conversion cancelled.'); return.
CancelInLoop(t) ==
    /\ pc[t] = "l132"
    /\ Emit(Done(t, FALSE, MsgCancelled, 0))
    /\ pc' = [pc EXCEPT ![t] = "ret"]
    /\ UNCHANGED <<stopFlag, proc, code, pipe, budget, buffer, dur, exit_code>>
    /\ UNCHANGED <<batchVars, stopVars, stopAt, stopDuring>>
    /\ UNCHANGED restVars

\* Lines 135-149: read(1) blocks until the child has written something or has
\* ended; end of stream leaves the loop; a terminator ends a line, which is
\* scanned for a marker and reported, and clears the buffer.
Read(t) ==
    /\ pc[t] = "l135"
    /\ \/ /\ pipe[t] # <<>>
          /\ pipe' = [pipe EXCEPT ![t] = Tail(pipe[t])]
          /\ LET char == Head(pipe[t])
                 buf == Append(buffer[t], char)
             IN  IF char.k = "nl"
                 THEN /\ history' = history \o LineEvents(t, buf, dur[t])
                      /\ buffer' = [buffer EXCEPT ![t] = <<>>]
                 ELSE /\ buffer' = [buffer EXCEPT ![t] = buf]
                      /\ UNCHANGED history
          /\ pc' = [pc EXCEPT ![t] = "l130"]
       \/ /\ pipe[t] = <<>>
          /\ proc[t] # "alive"
          /\ pc' = [pc EXCEPT ![t] = "l151"]
          /\ UNCHANGED <<pipe, buffer, history>>
    /\ UNCHANGED <<stopFlag, proc, code, budget, dur, exit_code>>
    /\ UNCHANGED <<batchVars, stopVars, stopAt, stopDuring>>
    /\ UNCHANGED restVars

\* Lines 151-152: wait for the exit; exit_code = self._proc.returncode
Wait(t) ==
    /\ pc[t] = "l151"
    /\ proc[t] = "exited"
    /\ exit_code' = [exit_code EXCEPT ![t] = <<code[t]>>]
    /\ pc' = [pc EXCEPT ![t] = "l154"]
    /\ UNCHANGED <<stopFlag, proc, code, pipe, budget, buffer, dur>>
    /\ UNCHANGED <<batchVars, stopVars, histVars>>
    /\ UNCHANGED restVars

\* FinalBranch without the test of the flag after the exit.
FinalBranchNoStop(stopped, ec) ==
    IF ec = 0 THEN "l157" ELSE "l160"

\* FinalBranch with the test of the exit code inverted.
FinalBranchInverted(stopped, ec) ==
    IF stopped THEN "l155"
    ELSE IF ec # 0 THEN "l157"
    ELSE "l160"

\* Lines 154-160: which branch the outcome takes.
FinalBranch(stopped, ec) ==
    IF stopped THEN "l155"
    ELSE IF ec = 0 THEN "l157"
    ELSE "l160"

Final(t) ==
    /\ pc[t] = "l154"
    /\ pc' = [pc EXCEPT ![t] = FinalBranch(stopFlag[t], exit_code[t][1])]
    /\ UNCHANGED <<stopFlag, proc, code, pipe, budget, buffer, dur, exit_code>>
    /\ UNCHANGED <<batchVars, stopVars, histVars>>
    /\ UNCHANGED restVars

\* Report without the final progress_cb(100, 'Done!').
ReportNoFinal100(t, line) ==
    CASE line = "l155" -> <<Done(t, FALSE, MsgCancelled, 0), "ret">>
      [] line = "l157" -> <<Done(t, TRUE, MsgComplete, 0), "ret">>
      [] line = "l158" -> <<Done(t, TRUE, MsgComplete, 0), "ret">>
      [] line = "l160" -> <<Done(t, FALSE, MsgExit, exit_code[t][1]), "ret">>

\* The callback made at each of the lines 155-160 and the line that follows.
Report(t, line) ==
    CASE line = "l155" -> <<Done(t, FALSE, MsgCancelled, 0), "ret">>
      [] line = "l157" -> <<Progress(t, 100, "Done!"), "l158">>
      [] line = "l158" -> <<Done(t, TRUE, MsgComplete, 0), "ret">>
      [] line = "l160" -> <<Done(t, FALSE, MsgExit, exit_code[t][1]), "ret">>

Outcome(t) ==
    /\ pc[t] \in {"l155", "l157", "l158", "l160"}
    /\ Emit(Report(t, pc[t])[1])
    /\ pc' = [pc EXCEPT ![t] = Report(t, pc[t])[2]]
    /\ UNCHANGED <<stopFlag, proc, code, pipe, budget, buffer, dur, exit_code>>
    /\ UNCHANGED <<batchVars, stopVars, stopAt, stopDuring>>
    /\ UNCHANGED restVars

\* ------------------------------------------------------------- the child
ChildEmit(t, tok) ==
    /\ proc[t] = "alive"
    /\ budget > 0
    /\ pipe' = [pipe EXCEPT ![t] = Append(pipe[t], tok)]
    /\ budget' = budget - 1
    /\ UNCHANGED <<pc, stopFlag, proc, code, buffer, dur, exit_code>>
    /\ UNCHANGED <<batchVars, stopVars, histVars>>
    /\ UNCHANGED restVars

ChildExit(t, c) ==
    /\ proc[t] = "alive"
    /\ proc' = [proc EXCEPT ![t] = "exited"]
    /\ code' = [code EXCEPT ![t] = c]
    /\ UNCHANGED <<pc, stopFlag, pipe, budget, buffer, dur, exit_code>>
    /\ UNCHANGED <<batchVars, stopVars, histVars>>
    /\ UNCHANGED restVars

\* ------------------------------------------- _BaseConverter.stop(), called
\* A thread other than the worker calls task t's stop().
TaskStopCall(t) ==
    /\ bpc = "direct"
    /\ spc = "idle"
    /\ nstops < MaxStops
    /\ spc' = "l101"
    /\ starget' = t
    /\ nstops' = nstops + 1
    /\ UNCHANGED <<taskVars, batchVars, histVars>>
    /\ UNCHANGED restVars

\* Line 101: self._stop.set()
TaskStopSet ==
    /\ spc = "l101"
    /\ stopFlag' = [stopFlag EXCEPT ![starget] = TRUE]
    /\ IF stopFlag[starget]
       THEN UNCHANGED <<history, stopAt>>
       ELSE /\ Emit(StopMark(starget))
            /\ stopAt' = [stopAt EXCEPT ![starget] = pc[starget]]
    /\ spc' = "l102"
    /\ UNCHANGED <<pc, proc, code, pipe, budget, buffer, dur, exit_code>>
    /\ UNCHANGED <<batchVars, starget, nstops, stopDuring>>
    /\ UNCHANGED restVars

\* Lines 102-106: kill the process if it is live; return.
TaskStopKill ==
    /\ spc = "l102"
    /\ KillIfAlive(starget)
    /\ spc' = "idle"
    /\ UNCHANGED <<pc, stopFlag, pipe, budget, buffer, dur, exit_code>>
    /\ UNCHANGED <<batchVars, starget, nstops, histVars>>
    /\ UNCHANGED restVars

\* ------------------------------------------------------------ BatchRunner
\* start(): the worker thread begins _run (lines 400-402, 410).
Start ==
    /\ bpc = "new"
    /\ bpc' = "l412"
    /\ idx' = 0
    /\ ok' = 0
    /\ fail' = 0
    /\ UNCHANGED <<taskVars, batchStop, cur, ntasks, stopVars, histVars>>
    /\ UNCHANGED restVars

\* Line 412: the test that lets the next item start.
MayStart(stopped) == ~stopped

\* BatchCheck for a worker that returns from _run, instead of leaving the
\* loop, when it sees the flag set.
BatchCheckReturns ==
    /\ bpc = "l412"
    /\ bpc' = IF idx < ntasks
              THEN IF MayStart(batchStop) THEN "l414" ELSE "end"
              ELSE "l420"
    /\ UNCHANGED <<taskVars, batchStop, cur, idx, ok, fail, ntasks>>
    /\ UNCHANGED <<stopVars, histVars>>
    /\ UNCHANGED restVars

\* BatchCheck for a worker that also leaves the loop when the task it has
\* just run reported a failure.
BatchCheckStopsOnFailure ==
    /\ bpc = "l412"
    /\ LET d == SelectSeq(history, LAMBDA e : e.kind = "done" /\ e.task = idx)
           failed == d # <<>> /\ ~d[Len(d)].ok
       IN  bpc' = IF idx < ntasks /\ MayStart(batchStop) /\ ~failed
                  THEN "l414" ELSE "l420"
    /\ UNCHANGED <<taskVars, batchStop, cur, idx, ok, fail, ntasks>>
    /\ UNCHANGED <<stopVars, histVars>>
    /\ UNCHANGED restVars

\* Lines 411-413: next item of the list, unless the flag is seen set.
BatchCheck ==
    /\ bpc = "l412"
    /\ bpc' = IF idx < ntasks /\ MayStart(batchStop) THEN "l414" ELSE "l420"
    /\ UNCHANGED <<taskVars, batchStop, cur, idx, ok, fail, ntasks>>
    /\ UNCHANGED <<stopVars, histVars>>
    /\ UNCHANGED restVars

\* Line 414: self._current_task = task
BatchAssign ==
    /\ bpc = "l414"
    /\ cur' = idx + 1
    /\ bpc' = "l416"
    /\ UNCHANGED <<taskVars, batchStop, idx, ok, fail, ntasks, stopVars, histVars>>
    /\ UNCHANGED restVars

\* BatchItemStart for a worker that enters run() without the callback.
BatchItemStartSkipped ==
    /\ bpc = "l416"
    /\ bpc' = "l417"
    /\ UNCHANGED <<taskVars, batchStop, cur, idx, ok, fail, ntasks, stopVars>>
    /\ UNCHANGED histVars
    /\ UNCHANGED restVars

\* BatchItemStart that reports the index counted from 1.
BatchItemStartOneBased ==
    /\ bpc = "l416"
    /\ Emit(ItemStart(idx + 1, idx + 1, ntasks, Basename(InputPath(idx + 1))))
    /\ bpc' = "l417"
    /\ UNCHANGED <<taskVars, batchStop, cur, idx, ok, fail, ntasks, stopVars>>
    /\ UNCHANGED <<stopAt, stopDuring>>
    /\ UNCHANGED restVars

\* Lines 415-416: item_start_cb(i, len(tasks), basename(task.input_path))
BatchItemStart ==
    /\ bpc = "l416"
    /\ Emit(ItemStart(idx + 1, idx, ntasks, Basename(InputPath(idx + 1))))
    /\ bpc' = "l417"
    /\ UNCHANGED <<taskVars, batchStop, cur, idx, ok, fail, ntasks, stopVars>>
    /\ UNCHANGED <<stopAt, stopDuring>>
    /\ UNCHANGED restVars

\* BatchCount for a worker that does not wait for run() to return.
BatchCountNoWait ==
    /\ bpc = "l417"
    /\ ok' = ok + 1
    /\ idx' = idx + 1
    /\ bpc' = "l412"
    /\ UNCHANGED <<taskVars, batchStop, cur, fail, ntasks, stopVars, histVars>>
    /\ UNCHANGED restVars

\* BatchCount that counts by the outcome the task reported.
BatchCountOutcome ==
    /\ bpc = "l417"
    /\ pc[idx + 1] = "ret"
    /\ LET d == SelectSeq(history,
                    LAMBDA e : e.kind = "done" /\ e.task = idx + 1)
       IN  IF d # <<>> /\ d[Len(d)].ok
           THEN ok' = ok + 1 /\ UNCHANGED fail
           ELSE fail' = fail + 1 /\ UNCHANGED ok
    /\ idx' = idx + 1
    /\ bpc' = "l412"
    /\ UNCHANGED <<taskVars, batchStop, cur, ntasks, stopVars, histVars>>
    /\ UNCHANGED restVars

\* Lines 417-419: task.run() has returned; ok += 1; next iteration.
BatchCount ==
    /\ bpc = "l417"
    /\ pc[idx + 1] = "ret"
    /\ ok' = ok + 1
    /\ idx' = idx + 1
    /\ bpc' = "l412"
    /\ UNCHANGED <<taskVars, batchStop, cur, fail, ntasks, stopVars, histVars>>
    /\ UNCHANGED restVars

\* Line 420: all_done_cb(ok, fail)
BatchAllDone ==
    /\ bpc = "l420"
    /\ Emit(AllDone(ok, fail))
    /\ bpc' = "end"
    /\ UNCHANGED <<taskVars, batchStop, cur, idx, ok, fail, ntasks, stopVars>>
    /\ UNCHANGED <<stopAt, stopDuring>>
    /\ UNCHANGED restVars

\* The task whose run() the worker is inside (0: none).
Running ==
    IF bpc = "l417" /\ pc[idx + 1] \notin {"idle", "ret"} THEN idx + 1 ELSE 0

\* A thread other than the worker calls BatchRunner.stop().
BatchStopCall ==
    /\ bpc # "direct"
    /\ spc = "idle"
    /\ nstops < MaxBatchStops
    /\ spc' = "l405"
    /\ nstops' = nstops + 1
    /\ stopDuring' = Running
    /\ UNCHANGED <<taskVars, batchVars, starget, history, stopAt>>
    /\ UNCHANGED restVars

\* Line 405: self._stop_event.set()
BatchStopSet ==
    /\ spc = "l405"
    /\ batchStop' = TRUE
    /\ IF batchStop THEN UNCHANGED history ELSE Emit(StopMark(0))
    /\ spc' = "l406"
    /\ UNCHANGED <<taskVars, bpc, cur, idx, ok, fail, ntasks, starget, nstops>>
    /\ UNCHANGED <<stopAt, stopDuring>>
    /\ UNCHANGED restVars

\* Lines 406-407: if self._current_task: self._current_task.stop()
BatchStopForward ==
    /\ spc = "l406"
    /\ IF cur # 0
       THEN spc' = "l101" /\ starget' = cur
       ELSE spc' = "idle" /\ UNCHANGED starget
    /\ UNCHANGED <<taskVars, batchVars, nstops, histVars>>
    /\ UNCHANGED restVars

\* -------------------------------------------------------------- behaviours
\* The steps of the thread inside task t's run().
TaskStep(t, D, S) ==
    \/ Run(t, D)
    \/ Popen(t, S)
    \/ LoopTop(t)
    \/ CancelInLoop(t)
    \/ Read(t)
    \/ Wait(t)
    \/ Final(t)
    \/ Outcome(t)

ChildStep(t, T, C) ==
    \/ \E tok \in T : ChildEmit(t, tok)
    \/ \E c \in C : ChildExit(t, c)

TaskStopStep ==
    \/ TaskStopSet
    \/ TaskStopKill

\* One task, run by its caller, and a thread calling its stop().
Next ==
    \/ TaskStep(1, Durations, SpawnResults)
    \/ ChildStep(1, Tokens, ExitCodes)
    \/ TaskStopCall(1)
    \/ TaskStopStep

Spec == Init /\ [][Next]_vars

WorkerStep ==
    \/ Start
    \/ BatchCheck
    \/ BatchAssign
    \/ BatchItemStart
    \/ BatchCount
    \/ BatchAllDone
    \/ \E t \in Tasks : TaskStep(t, BatchDurations, BatchSpawnResults)

BatchStopStep ==
    \/ BatchStopSet
    \/ BatchStopForward
    \/ TaskStopStep

BatchNext ==
    \/ WorkerStep
    \/ \E t \in Tasks : ChildStep(t, BatchTokens, BatchExitCodes)
    \/ BatchStopCall
    \/ BatchStopStep

\* A batch and a thread calling BatchRunner.stop().
BatchSpec == BatchInit /\ [][BatchNext]_vars

\* The same, with the threads scheduled: the worker and the cancelling thread
\* keep running while they can; nothing is assumed of the child, which may
\* stay silent and never exit.
FairBatchSpec ==
    BatchSpec /\ WF_vars(WorkerStep) /\ WF_vars(BatchStopStep)

\* ------------------------------------------------------------------ strings
\* A Python str is a TLA+ string; its characters, which isdigit(), `in`,
\* split() and concatenation work on, are given by Spelling for every string
\* the argument lists of this model are made of.
Spelling ==
       "" :> <<>>
    @@ "auto" :> <<"a", "u", "t", "o">>
    @@ "3000" :> <<"3", "0", "0", "0">>
    @@ "3000k" :> <<"3", "0", "0", "0", "k">>
    @@ "5m" :> <<"5", "m">>
    @@ "5mk" :> <<"5", "m", "k">>
    @@ "vbr" :> <<"v", "b", "r">>
    @@ "5000k" :> <<"5", "0", "0", "0", "k">>
    @@ "libx264" :> <<"l", "i", "b", "x", "2", "6", "4">>
    @@ "libx265" :> <<"l", "i", "b", "x", "2", "6", "5">>
    @@ "h264" :> <<"h", "2", "6", "4">>
    @@ "libvpx-vp9" :> <<"l", "i", "b", "v", "p", "x", "-", "v", "p", "9">>
    @@ "copy" :> <<"c", "o", "p", "y">>
    @@ "h264_nvenc" :> <<"h", "2", "6", "4", "_", "n", "v", "e", "n", "c">>
    @@ "hevc_nvenc" :> <<"h", "e", "v", "c", "_", "n", "v", "e", "n", "c">>
    @@ "nvenc" :> <<"n", "v", "e", "n", "c">>
    @@ "720" :> <<"7", "2", "0">>
    @@ "scale=-2:720" :>
         <<"s", "c", "a", "l", "e", "=", "-", "2", ":", "7", "2", "0">>
    @@ "scale_cuda=-2:720" :>
         <<"s", "c", "a", "l", "e", "_", "c", "u", "d", "a", "=", "-", "2",
           ":", "7", "2", "0">>
    @@ "4" :> <<"4">>
    @@ "ref=4" :> <<"r", "e", "f", "=", "4">>
    @@ "cabac=1" :> <<"c", "a", "b", "a", "c", "=", "1">>
    @@ "cabac=0" :> <<"c", "a", "b", "a", "c", "=", "0">>
    @@ "ref=4:cabac=1" :>
         <<"r", "e", "f", "=", "4", ":", "c", "a", "b", "a", "c", "=",
           "1">>
    @@ "ref=4:cabac=0" :>
         <<"r", "e", "f", "=", "4", ":", "c", "a", "b", "a", "c", "=",
           "0">>
    @@ "-an" :> <<"-", "a", "n">>
    @@ "-i" :> <<"-", "i">>
    @@ "in/a.mkv" :> <<"i", "n", "/", "a", ".", "m", "k", "v">>
    @@ "-i in/a.mkv" :>
         <<"-", "i", " ", "i", "n", "/", "a", ".", "m", "k", "v">>
    @@ "a.mkv" :> <<"a", ".", "m", "k", "v">>
    @@ "a" :> <<"a">>
    @@ "out" :> <<"o", "u", "t">>
    @@ "mp4" :> <<"m", "p", "4">>
    @@ "webm" :> <<"w", "e", "b", "m">>
    @@ "gif" :> <<"g", "i", "f">>
    @@ "a.mp4" :> <<"a", ".", "m", "p", "4">>
    @@ "a.webm" :> <<"a", ".", "w", "e", "b", "m">>
    @@ "a.gif" :> <<"a", ".", "g", "i", "f">>
    @@ "out/a.mp4" :> <<"o", "u", "t", "/", "a", ".", "m", "p", "4">>
    @@ "out/a.webm" :> <<"o", "u", "t", "/", "a", ".", "w", "e", "b", "m">>
    @@ "out/a.gif" :> <<"o", "u", "t", "/", "a", ".", "g", "i", "f">>
    @@ "k" :> <<"k">>
    @@ "0" :> <<"0">>
    @@ "1" :> <<"1">>
    @@ ":" :> <<":">>
    @@ "." :> <<".">>
    @@ "/" :> <<"/">>
    @@ "scale=-2:" :> <<"s", "c", "a", "l", "e", "=", "-", "2", ":">>
    @@ "scale_cuda=-2:" :>
         <<"s", "c", "a", "l", "e", "_", "c", "u", "d", "a", "=", "-", "2",
           ":">>
    @@ "ref=" :> <<"r", "e", "f", "=">>
    @@ "cabac=" :> <<"c", "a", "b", "a", "c", "=">>
    @@ "out/" :> <<"o", "u", "t", "/">>
    @@ "a." :> <<"a", ".">>
    @@ "ref=4:" :> <<"r", "e", "f", "=", "4", ":">>
    @@ "mp3" :> <<"m", "p", "3">>
    @@ "a.mp3" :> <<"a", ".", "m", "p", "3">>
    @@ "out/a.mp3" :> <<"o", "u", "t", "/", "a", ".", "m", "p", "3">>
    @@ "flac" :> <<"f", "l", "a", "c">>
    @@ "a.flac" :> <<"a", ".", "f", "l", "a", "c">>
    @@ "out/a.flac" :> <<"o", "u", "t", "/", "a", ".", "f", "l", "a", "c">>
    @@ "x/a.wav" :> <<"x", "/", "a", ".", "w", "a", "v">>
    @@ "a.wav" :> <<"a", ".", "w", "a", "v">>
    @@ "in/a.b.wav" :> <<"i", "n", "/", "a", ".", "b", ".", "w", "a", "v">>
    @@ "a.b.wav" :> <<"a", ".", "b", ".", "w", "a", "v">>
    @@ "a.b" :> <<"a", ".", "b">>
    @@ "a.b." :> <<"a", ".", "b", ".">>
    @@ "a.b.mp3" :> <<"a", ".", "b", ".", "m", "p", "3">>
    @@ "out/a.b.mp3" :>
         <<"o", "u", "t", "/", "a", ".", "b", ".", "m", "p", "3">>
    @@ "a.b.flac" :> <<"a", ".", "b", ".", "f", "l", "a", "c">>
    @@ "out/a.b.flac" :>
         <<"o", "u", "t", "/", "a", ".", "b", ".", "f", "l", "a", "c">>
    @@ "a.b.mp4" :> <<"a", ".", "b", ".", "m", "p", "4">>
    @@ "out/a.b.mp4" :>
         <<"o", "u", "t", "/", "a", ".", "b", ".", "m", "p", "4">>
    @@ "song.wav" :> <<"s", "o", "n", "g", ".", "w", "a", "v">>
    @@ "song" :> <<"s", "o", "n", "g">>
    @@ "song." :> <<"s", "o", "n", "g", ".">>
    @@ "song.mp3" :> <<"s", "o", "n", "g", ".", "m", "p", "3">>
    @@ "out/song.mp3" :>
         <<"o", "u", "t", "/", "s", "o", "n", "g", ".", "m", "p", "3">>
    @@ "song.flac" :> <<"s", "o", "n", "g", ".", "f", "l", "a", "c">>
    @@ "out/song.flac" :>
         <<"o", "u", "t", "/", "s", "o", "n", "g", ".", "f", "l", "a",
           "c">>
    @@ "song.mp4" :> <<"s", "o", "n", "g", ".", "m", "p", "4">>
    @@ "out/song.mp4" :>
         <<"o", "u", "t", "/", "s", "o", "n", "g", ".", "m", "p", "4">>

KnownStrings == DOMAIN Spelling
DigitChars == {"0", "1", "2", "3", "4", "5", "6", "7", "8", "9"}

\* The string spelled by chars.
Str(chars) == CHOOSE s \in KnownStrings : Spelling[s] = chars
\* a + b
Concat(a, b) == Str(Spelling[a] \o Spelling[b])
\* s.isdigit(): not empty and digits only
IsDigit(s) ==
    /\ s # ""
    /\ \A i \in 1..Len(Spelling[s]) : Spelling[s][i] \in DigitChars
\* any(c.isdigit() for c in s)
AnyDigit(s) == \E i \in 1..Len(Spelling[s]) : Spelling[s][i] \in DigitChars
\* sub in s
Contains(s, sub) ==
    LET c == Spelling[s]
        d == Spelling[sub]
    IN  \E i \in 1..(Len(c) - Len(d) + 1) : SubSeq(c, i, i + Len(d) - 1) = d
\* str(n) for n >= 0
RECURSIVE Decimal(_)
Decimal(n) ==
    LET digit == <<"0", "1", "2", "3", "4", "5", "6", "7", "8", "9">>[(n % 10) + 1]
    IN  IF n < 10 THEN <<digit>> ELSE Append(Decimal(n \div 10), digit)
IntStr(n) == Str(Decimal(n))
\* s.split(): the words of s between runs of blanks
RECURSIVE SplitChars(_, _)
SplitChars(chars, word) ==
    IF chars = <<>>
    THEN IF word = <<>> THEN <<>> ELSE <<Str(word)>>
    ELSE IF Head(chars) = " "
         THEN (IF word = <<>> THEN <<>> ELSE <<Str(word)>>)
                  \o SplitChars(Tail(chars), <<>>)
         ELSE SplitChars(Tail(chars), Append(word, Head(chars)))
Split(s) == SplitChars(Spelling[s], <<>>)
\* sep.join(parts), parts not empty
RECURSIVE JoinWith(_, _)
JoinWith(sep, parts) ==
    IF Len(parts) = 1 THEN parts[1]
    ELSE Concat(Concat(parts[1], sep), JoinWith(sep, Tail(parts)))

\* The last position of character ch in chars, 0 if none.
LastIndex(chars, ch) ==
    LET hits == {i \in 1..Len(chars) : chars[i] = ch}
    IN  IF hits = {} THEN 0 ELSE CHOOSE i \in hits : \A k \in hits : k <= i
\* os.path.basename(p)
OsBasename(p) ==
    LET c == Spelling[p]
    IN  Str(SubSeq(c, LastIndex(c, "/") + 1, Len(c)))
\* The name cut at its first dot instead of its last.
SplitextRootFirstDot(name) ==
    LET c == Spelling[name]
        hits == {i \in 2..Len(c) : c[i] = "."}
    IN  IF hits = {} THEN name
        ELSE Str(SubSeq(c, 1, (CHOOSE i \in hits : \A k \in hits : i <= k) - 1))

\* os.path.splitext(name)[0]: name without its last extension; a leading dot
\* does not start an extension
SplitextRoot(name) ==
    LET c == Spelling[name]
        i == LastIndex(c, ".")
    IN  IF i <= 1 THEN name ELSE Str(SubSeq(c, 1, i - 1))
\* os.path.join(dir, name), name relative
OsJoin(dir, name) ==
    IF dir = "" \/ Spelling[dir][Len(Spelling[dir])] = "/"
    THEN Concat(dir, name)
    ELSE Concat(Concat(dir, "/"), name)

\* ----------------------------------------------------------- VideoConverter
\* VIDEO_QUALITY_CRF, VIDEO_QUALITY_GPU (lines 36-37) and RESOLUTION_MAP
VIDEO_QUALITY_CRF == ("high" :> "18" @@ "medium" :> "23" @@ "low" :> "28")
VIDEO_QUALITY_GPU == ("high" :> "6000k" @@ "medium" :> "4000k" @@ "low" :> "2000k")
RESOLUTION_MAP ==
    ("360p" :> "360" @@ "480p" :> "480" @@ "720p" :> "720"
        @@ "1080p" :> "1080" @@ "2k" :> "1440" @@ "4k" :> "2160")
\* d.get(key, default)
Get(d, key, default) == IF key \in DOMAIN d THEN d[key] ELSE default

\* The option values the argument lists are built for.  "gif" is no member
\* of VIDEO_FORMATS but _build_args and _resolve_video_encoder test for it.
OutFormats == {"mp4", "webm", "gif"}
Resolutions == {"original", "720p"}
Qualities == {"high", "medium", "low"}
VBitrates == {"auto", "3000", "5m", "vbr"}
FpsValues == {"original", "30"}
VEncoders == {"libx264", "h264", "libx265", "libvpx-vp9", "copy"}
AEncoders == {"aac", "copy", "original"}
ABitrates == {"original", "192k", ""}
AChannels == {"original", "2"}
ASamplerates == {"original", "48000", ""}
CustomFlags == {"", "-an", "-i in/a.mkv"}
RefFrames == {0, 4}
VideoInput == "in/a.mkv"
OutputDir == "out"

\* Lines 233-234 (and 176-177): the output path, fixed at construction.
OutputPath(input_path, output_dir, out_format) ==
    OsJoin(output_dir,
           Concat(Concat(SplitextRoot(OsBasename(input_path)), "."), out_format))

\* The video options of a task, every combination of them.
VideoFields ==
    [ out_format : OutFormats, resolution : Resolutions, quality : Qualities,
      use_gpu : BOOLEAN, advanced : BOOLEAN, v_bitrate : VBitrates,
      fps : FpsValues, v_encoder : VEncoders, custom_flags : CustomFlags,
      ref_frames : RefFrames, use_cabac : BOOLEAN ]
\* The audio options of a task, every combination of them.
AudioFields ==
    [ a_encoder : AEncoders, a_bitrate : ABitrates, a_channels : AChannels,
      a_samplerate : ASamplerates ]
\* The defaults of the constructor (lines 225-230), for the options that
\* do not decide whether audio arguments are built.
DefaultVideoFields ==
    { v \in VideoFields :
        /\ v.resolution = "original" /\ v.quality = "medium"
        /\ v.v_bitrate = "auto" /\ v.fps = "original"
        /\ v.v_encoder = "libx264" /\ v.custom_flags = ""
        /\ v.ref_frames = 0 /\ v.use_cabac }
PlainAudioFields ==
    { a \in AudioFields :
        /\ a.a_encoder = "aac"
        /\ \/ a.a_bitrate = "original" /\ a.a_channels = "original"
                /\ a.a_samplerate = "original"
           \/ a.a_bitrate = "192k" /\ a.a_channels = "2"
                /\ a.a_samplerate = "48000" }

\* The fields of a VideoConverter after __init__ (lines 224-253), which has
\* lowered and stripped the option strings and derived the output path:
\* every combination of video options with two audio settings, and every
\* combination of audio options with the other video options at their
\* defaults.
Construct(v, a) ==
    v @@ a @@ [ input_path |-> VideoInput,
                output_path |-> OutputPath(VideoInput, OutputDir, v.out_format) ]
VideoOptions ==
    { Construct(v, a) : v \in VideoFields, a \in PlainAudioFields }
        \cup { Construct(v, a) : v \in DefaultVideoFields, a \in AudioFields }

\* Lines 319-323: the encoder before any substitution.
RequestedEncoder(o) ==
    IF o.advanced THEN o.v_encoder
    ELSE IF o.out_format \in {"mp4", "mov", "mkv"} THEN "libx264"
    ELSE o.v_encoder

\* _resolve_video_encoder substituting without use_gpu.
ResolveVideoEncoderAnyway(o) ==
    LET enc == RequestedEncoder(o)
    IN  IF o.out_format # "gif" /\ enc # "copy"
        THEN IF enc \in {"libx264", "h264"} THEN "h264_nvenc"
             ELSE IF enc \in {"libx265", "hevc", "h265"} THEN "hevc_nvenc"
             ELSE enc
        ELSE enc

\* Lines 317-330: _resolve_video_encoder
ResolveVideoEncoder(o) ==
    LET enc == RequestedEncoder(o)
    IN  IF o.use_gpu /\ o.out_format # "gif" /\ enc # "copy"
        THEN IF enc \in {"libx264", "h264"} THEN "h264_nvenc"
             ELSE IF enc \in {"libx265", "hevc", "h265"} THEN "hevc_nvenc"
             ELSE enc
        ELSE enc

\* The bitrate of advanced mode without the "k" added to a bare integer.
AdvancedBitrateArgsAsGiven(o, encoder) ==
    LET is_nvenc == Contains(encoder, "nvenc")
        bv == o.v_bitrate
    IN  IF o.v_bitrate # "" /\ o.v_bitrate # "auto"
        THEN IF AnyDigit(bv)
             THEN <<"-b:v", bv>>
                      \o (IF is_nvenc THEN <<"-maxrate", bv>> ELSE <<>>)
             ELSE <<>>
        ELSE IF is_nvenc THEN <<"-b:v", "5000k">>
             ELSE IF Contains(encoder, "libx264") THEN <<"-crf", "23">>
             ELSE <<>>

\* The bitrate of advanced mode with the constant quality of libx264 given
\* to every software encoder.
AdvancedBitrateArgsCrfForAll(o, encoder) ==
    LET is_nvenc == Contains(encoder, "nvenc")
        bv == IF IsDigit(o.v_bitrate) THEN Concat(o.v_bitrate, "k")
              ELSE o.v_bitrate
    IN  IF o.v_bitrate # "" /\ o.v_bitrate # "auto"
        THEN IF AnyDigit(bv)
             THEN <<"-b:v", bv>>
                      \o (IF is_nvenc THEN <<"-maxrate", bv>> ELSE <<>>)
             ELSE <<>>
        ELSE IF is_nvenc THEN <<"-b:v", "5000k">>
             ELSE <<"-crf", "23">>

\* Lines 337-351: the bitrate of advanced mode.
AdvancedBitrateArgs(o, encoder) ==
    LET is_nvenc == Contains(encoder, "nvenc")
        bv == IF IsDigit(o.v_bitrate) THEN Concat(o.v_bitrate, "k")
              ELSE o.v_bitrate
    IN  IF o.v_bitrate # "" /\ o.v_bitrate # "auto"
        THEN IF AnyDigit(bv)
             THEN <<"-b:v", bv>>
                      \o (IF is_nvenc THEN <<"-maxrate", bv>> ELSE <<>>)
             ELSE <<>>
        ELSE IF is_nvenc THEN <<"-b:v", "5000k">>
             ELSE IF Contains(encoder, "libx264") THEN <<"-crf", "23">>
             ELSE <<>>

\* Lines 353-362: reference frames and CABAC of advanced mode.
AdvancedFrameArgs(o, encoder) ==
    IF Contains(encoder, "libx264")
    THEN LET ref == IF o.ref_frames > 0
                    THEN <<Concat("ref=", IntStr(o.ref_frames))>> ELSE <<>>
             cabac == Concat("cabac=", IF o.use_cabac THEN "1" ELSE "0")
         IN  <<"-x264-params", JoinWith(":", Append(ref, cabac))>>
    ELSE IF Contains(encoder, "nvenc") /\ o.ref_frames > 0
         THEN <<"-refs", IntStr(o.ref_frames)>>
         ELSE <<>>

\* The quality arguments of simple mode with the middle tier for all.
SimpleQualityArgsMiddle(o, encoder) ==
    IF Contains(encoder, "nvenc")
    THEN <<"-b:v", "4000k">>
    ELSE <<"-crf", "23", "-preset", "medium">>

\* Lines 363-370: the quality table of simple mode.
SimpleQualityArgs(o, encoder) ==
    IF Contains(encoder, "nvenc")
    THEN <<"-b:v", Get(VIDEO_QUALITY_GPU, o.quality, "4000k")>>
    ELSE <<"-crf", Get(VIDEO_QUALITY_CRF, o.quality, "23"), "-preset", "medium">>

\* Lines 332-372: _build_video_quality_args
BuildVideoQualityArgs(o, encoder) ==
    IF o.advanced
    THEN AdvancedBitrateArgs(o, encoder) \o AdvancedFrameArgs(o, encoder)
    ELSE SimpleQualityArgs(o, encoder)

\* Hardware decoding requested whatever use_gpu says.
HwAccelArgsAlways(o) ==
    <<"-hwaccel", "cuda", "-hwaccel_output_format", "cuda">>

\* Lines 265-266: hardware decoding, before the input.
HwAccelArgs(o) ==
    IF o.use_gpu THEN <<"-hwaccel", "cuda", "-hwaccel_output_format", "cuda">>
    ELSE <<>>

\* Line 269
InputArgs(o) == <<"-i", o.input_path>>

\* Lines 271-277: scaling to the height of a known resolution.
ScaleArgs(o) ==
    LET target_h == Get(RESOLUTION_MAP, o.resolution, "")
    IN  IF target_h # ""
        THEN IF o.use_gpu
             THEN <<"-vf", Concat("scale_cuda=-2:", target_h)>>
             ELSE <<"-vf", Concat("scale=-2:", target_h)>>
        ELSE <<>>

\* The quality arguments built for the pass-through encoder as well.
VideoEncoderArgsQualityAlways(o) ==
    LET final_encoder == ResolveVideoEncoder(o)
    IN  <<"-c:v", final_encoder>> \o BuildVideoQualityArgs(o, final_encoder)

\* Lines 279-286: the video encoder and its quality arguments.
VideoEncoderArgs(o) ==
    LET final_encoder == ResolveVideoEncoder(o)
    IN  IF final_encoder = "copy" THEN <<"-c:v", "copy">>
        ELSE <<"-c:v", final_encoder>>
                 \o BuildVideoQualityArgs(o, final_encoder)

\* Lines 288-290
FpsArgs(o) ==
    IF o.advanced /\ o.fps # "original" THEN <<"-r", o.fps>> ELSE <<>>

\* Lines 292-294: custom flags, split at blanks and passed on as they are.
CustomArgs(o) ==
    IF o.advanced /\ o.custom_flags # "" THEN Split(o.custom_flags) ELSE <<>>

\* Lines 301-309: the audio arguments of advanced mode.
AdvancedAudioArgs(o) ==
    IF o.a_encoder = "copy" THEN <<"-c:a", "copy">>
    ELSE <<"-c:a", o.a_encoder>>
             \o (IF o.a_channels \notin {"original", ""}
                 THEN <<"-ac", o.a_channels>> ELSE <<>>)
             \o (IF o.a_samplerate \notin {"original", ""}
                 THEN <<"-ar", o.a_samplerate>> ELSE <<>>)
             \o (IF o.a_bitrate \notin {"original", ""}
                 THEN <<"-b:a", o.a_bitrate>> ELSE <<>>)

\* Lines 296-311
AudioArgs(o) ==
    IF o.out_format = "gif" THEN <<>>
    ELSE IF o.advanced THEN AdvancedAudioArgs(o)
    ELSE <<"-c:a", "aac", "-b:a", "192k">>

\* Lines 313-314
OutputArgs(o) == <<"-y", o.output_path>>

\* _build_args with the custom flags appended after the output path.
BuildArgsCustomLast(o) ==
    HwAccelArgs(o) \o InputArgs(o) \o ScaleArgs(o) \o VideoEncoderArgs(o)
        \o FpsArgs(o) \o AudioArgs(o) \o OutputArgs(o) \o CustomArgs(o)

\* Lines 262-315: _build_args
BuildArgs(o) ==
    HwAccelArgs(o) \o InputArgs(o) \o ScaleArgs(o) \o VideoEncoderArgs(o)
        \o FpsArgs(o) \o CustomArgs(o) \o AudioArgs(o) \o OutputArgs(o)

\* ---------------------------------------------------- concurrent BatchRunners
\* Two BatchRunners, each constructed over its own NJobTasks tasks, each with its
\* own worker thread and its own thread calling stop().  A task's run() is
\* taken in four steps: the initial progress report, the spawn, the loop
\* (left by a cancellation seen or by the end of the stream), and the final
\* branch on the flag and the exit code.
Jobs == {"jobA", "jobB"}
JobTasks == 1..NJobTasks
JobExitCodes == {0, 1}

\* What the specification of the jobs leaves alone.
soloVars == <<taskVars, batchVars, stopVars, histVars>>

\* __init__ (lines 392-398) of each runner and of each of its tasks.
JobsInit ==
    /\ TaskInit
    /\ bpc = "none"
    /\ budget = 0
    /\ ntasks = 0
    /\ NoBuild
    /\ NoBridge
    /\ rpc = [j \in Jobs |-> "new"]
    /\ rstop = [j \in Jobs |-> FALSE]
    /\ rcur = [j \in Jobs |-> 0]
    /\ ridx = [j \in Jobs |-> 0]
    /\ rok = [j \in Jobs |-> 0]
    /\ rtask = [j \in Jobs |-> [t \in JobTasks |->
                  [pc |-> "idle", stop |-> FALSE, proc |-> "none", code |-> 0]]]
    /\ revents = [j \in Jobs |-> <<>>]
    /\ rspc = [j \in Jobs |-> "idle"]
    /\ rstarget = [j \in Jobs |-> 0]
    /\ rnstops = [j \in Jobs |-> 0]

JobEmit(j, es) == revents' = [revents EXCEPT ![j] = @ \o es]

\* run() up to the spawn: progress_cb(0, ...), the probe (lines 182-184).
JobRun(j, t) ==
    /\ rpc[j] = "l417"
    /\ t = ridx[j] + 1
    /\ rtask[j][t].pc = "idle"
    /\ rtask' = [rtask EXCEPT ![j][t].pc = "l113"]
    /\ JobEmit(j, <<Progress(t, 0, "Getting info...")>>)
    /\ UNCHANGED <<rpc, rstop, rcur, ridx, rok, rspc, rstarget, rnstops>>
    /\ UNCHANGED <<soloVars, buildVars, bridgeVars>>

\* Lines 112-120: the spawn.
JobPopen(j, t) ==
    /\ rtask[j][t].pc = "l113"
    /\ rtask' = [rtask EXCEPT ![j][t].pc = "l130", ![j][t].proc = "alive"]
    /\ UNCHANGED <<rpc, rstop, rcur, ridx, rok, revents>>
    /\ UNCHANGED <<rspc, rstarget, rnstops, soloVars, buildVars, bridgeVars>>

\* stop()'s effect on the process of task t of runner j (lines 102-106).
JobKilled(j, t) ==
    IF rtask[j][t].proc = "alive"
    THEN [rtask[j][t] EXCEPT !.proc = "exited", !.code = Killed]
    ELSE rtask[j][t]

\* Lines 129-152: the loop ends by the flag seen set (kill, done_cb, return)
\* or, the flag not seen, by the end of the stream of a child that has ended.
JobLoop(j, t) ==
    /\ rtask[j][t].pc = "l130"
    /\ IF rtask[j][t].stop
       THEN /\ rtask' = [rtask EXCEPT ![j][t] = [JobKilled(j, t) EXCEPT !.pc = "ret"]]
            /\ JobEmit(j, <<Done(t, FALSE, MsgCancelled, 0)>>)
       ELSE /\ rtask[j][t].proc = "exited"
            /\ rtask' = [rtask EXCEPT ![j][t].pc = "l154"]
            /\ UNCHANGED revents
    /\ UNCHANGED <<rpc, rstop, rcur, ridx, rok, rspc, rstarget, rnstops>>
    /\ UNCHANGED <<soloVars, buildVars, bridgeVars>>

\* Lines 154-160: the final branch and its callbacks.
JobFinal(j, t) ==
    /\ rtask[j][t].pc = "l154"
    /\ rtask' = [rtask EXCEPT ![j][t].pc = "ret"]
    /\ JobEmit(j,
          IF rtask[j][t].stop THEN <<Done(t, FALSE, MsgCancelled, 0)>>
          ELSE IF rtask[j][t].code = 0
               THEN <<Progress(t, 100, "Done!"), Done(t, TRUE, MsgComplete, 0)>>
               ELSE <<Done(t, FALSE, MsgExit, rtask[j][t].code)>>)
    /\ UNCHANGED <<rpc, rstop, rcur, ridx, rok, rspc, rstarget, rnstops>>
    /\ UNCHANGED <<soloVars, buildVars, bridgeVars>>

\* The child of task t of runner j ends by itself.
JobChildExit(j, t, c) ==
    /\ rtask[j][t].proc = "alive"
    /\ rtask' = [rtask EXCEPT ![j][t].proc = "exited", ![j][t].code = c]
    /\ UNCHANGED <<rpc, rstop, rcur, ridx, rok, revents>>
    /\ UNCHANGED <<rspc, rstarget, rnstops, soloVars, buildVars, bridgeVars>>

\* start() and _run of runner j (lines 400-402, 409-420).
JobStart(j) ==
    /\ rpc[j] = "new"
    /\ rpc' = [rpc EXCEPT ![j] = "l412"]
    /\ UNCHANGED <<rstop, rcur, ridx, rok, rtask, revents>>
    /\ UNCHANGED <<rspc, rstarget, rnstops, soloVars, buildVars, bridgeVars>>

JobCheck(j) ==
    /\ rpc[j] = "l412"
    /\ rpc' = [rpc EXCEPT ![j] =
                  IF ridx[j] < NJobTasks /\ MayStart(rstop[j]) THEN "l414" ELSE "l420"]
    /\ UNCHANGED <<rstop, rcur, ridx, rok, rtask, revents>>
    /\ UNCHANGED <<rspc, rstarget, rnstops, soloVars, buildVars, bridgeVars>>

JobAssign(j) ==
    /\ rpc[j] = "l414"
    /\ rcur' = [rcur EXCEPT ![j] = ridx[j] + 1]
    /\ rpc' = [rpc EXCEPT ![j] = "l416"]
    /\ UNCHANGED <<rstop, ridx, rok, rtask, revents>>
    /\ UNCHANGED <<rspc, rstarget, rnstops, soloVars, buildVars, bridgeVars>>

JobItemStart(j) ==
    /\ rpc[j] = "l416"
    /\ JobEmit(j, <<ItemStart(ridx[j] + 1, ridx[j], NJobTasks,
                              Basename(InputPath(ridx[j] + 1)))>>)
    /\ rpc' = [rpc EXCEPT ![j] = "l417"]
    /\ UNCHANGED <<rstop, rcur, ridx, rok, rtask>>
    /\ UNCHANGED <<rspc, rstarget, rnstops, soloVars, buildVars, bridgeVars>>

JobCount(j) ==
    /\ rpc[j] = "l417"
    /\ rtask[j][ridx[j] + 1].pc = "ret"
    /\ rok' = [rok EXCEPT ![j] = @ + 1]
    /\ ridx' = [ridx EXCEPT ![j] = @ + 1]
    /\ rpc' = [rpc EXCEPT ![j] = "l412"]
    /\ UNCHANGED <<rstop, rcur, rtask, revents>>
    /\ UNCHANGED <<rspc, rstarget, rnstops, soloVars, buildVars, bridgeVars>>

JobAllDone(j) ==
    /\ rpc[j] = "l420"
    /\ JobEmit(j, <<AllDone(rok[j], 0)>>)
    /\ rpc' = [rpc EXCEPT ![j] = "end"]
    /\ UNCHANGED <<rstop, rcur, ridx, rok, rtask>>
    /\ UNCHANGED <<rspc, rstarget, rnstops, soloVars, buildVars, bridgeVars>>

\* A thread calls runner j's stop() (line 404).
JobStopCall(j) ==
    /\ rspc[j] = "idle"
    /\ rnstops[j] < MaxJobStops
    /\ rspc' = [rspc EXCEPT ![j] = "l405"]
    /\ rnstops' = [rnstops EXCEPT ![j] = @ + 1]
    /\ UNCHANGED <<rpc, rstop, rcur, ridx, rok, rtask, revents, rstarget>>
    /\ UNCHANGED <<soloVars, buildVars, bridgeVars>>

\* JobStopSet for a flag that is one object shared by all runners.
JobStopSetShared(j) ==
    /\ rspc[j] = "l405"
    /\ rstop' = [k \in Jobs |-> TRUE]
    /\ rspc' = [rspc EXCEPT ![j] = "l406"]
    /\ UNCHANGED <<rpc, rcur, ridx, rok, rtask, revents, rstarget, rnstops>>
    /\ UNCHANGED <<soloVars, buildVars, bridgeVars>>

\* Line 405: self._stop_event.set(); the event was made in __init__ (line
\* 396), one for each runner.
JobStopSet(j) ==
    /\ rspc[j] = "l405"
    /\ rstop' = [rstop EXCEPT ![j] = TRUE]
    /\ rspc' = [rspc EXCEPT ![j] = "l406"]
    /\ UNCHANGED <<rpc, rcur, ridx, rok, rtask, revents, rstarget, rnstops>>
    /\ UNCHANGED <<soloVars, buildVars, bridgeVars>>

\* Lines 406-407: if self._current_task: self._current_task.stop()
JobStopForward(j) ==
    /\ rspc[j] = "l406"
    /\ IF rcur[j] # 0
       THEN /\ rspc' = [rspc EXCEPT ![j] = "l101"]
            /\ rstarget' = [rstarget EXCEPT ![j] = rcur[j]]
       ELSE /\ rspc' = [rspc EXCEPT ![j] = "idle"]
            /\ UNCHANGED rstarget
    /\ UNCHANGED <<rpc, rstop, rcur, ridx, rok, rtask, revents, rnstops>>
    /\ UNCHANGED <<soloVars, buildVars, bridgeVars>>

\* Line 101 of the task's stop().
JobTaskStopSet(j) ==
    /\ rspc[j] = "l101"
    /\ rtask' = [rtask EXCEPT ![j][rstarget[j]].stop = TRUE]
    /\ rspc' = [rspc EXCEPT ![j] = "l102"]
    /\ UNCHANGED <<rpc, rstop, rcur, ridx, rok, revents, rstarget, rnstops>>
    /\ UNCHANGED <<soloVars, buildVars, bridgeVars>>

\* Lines 102-106 of the task's stop().
JobTaskStopKill(j) ==
    /\ rspc[j] = "l102"
    /\ rtask' = [rtask EXCEPT ![j][rstarget[j]] = JobKilled(j, rstarget[j])]
    /\ rspc' = [rspc EXCEPT ![j] = "idle"]
    /\ UNCHANGED <<rpc, rstop, rcur, ridx, rok, revents, rstarget, rnstops>>
    /\ UNCHANGED <<soloVars, buildVars, bridgeVars>>

JobWorkerStep(j) ==
    \/ JobStart(j)
    \/ JobCheck(j)
    \/ JobAssign(j)
    \/ JobItemStart(j)
    \/ JobCount(j)
    \/ JobAllDone(j)
    \/ \E t \in JobTasks :
          \/ JobRun(j, t)
          \/ JobPopen(j, t)
          \/ JobLoop(j, t)
          \/ JobFinal(j, t)
          \/ \E c \in JobExitCodes : JobChildExit(j, t, c)

JobStopStep(j) ==
    \/ JobStopCall(j)
    \/ JobStopSet(j)
    \/ JobStopForward(j)
    \/ JobTaskStopSet(j)
    \/ JobTaskStopKill(j)

JobsNext == \E j \in Jobs : JobWorkerStep(j) \/ JobStopStep(j)

\* Two jobs running concurrently, each with a thread calling its stop().
JobsSpec == JobsInit /\ [][JobsNext]_vars

\* ------------------------------------------------------------- the bridge
\* MacanMediaAPI.converter_start and converter_cancel (src/main.py), each
\* call on a thread of its own, over the runners of the section above:
\* a runner is "none" until converter_start constructs it.
JobIds == {"id1", "id2"}
\* The first file of a job; the files after it are FileAfter.
FirstFiles == {"x/a.wav", "a.wav", "song.wav"}
FileAfter == "in/a.b.wav"
FileLists == {[t \in JobTasks |-> IF t = 1 THEN f ELSE FileAfter] : f \in FirstFiles}
\* The errors converter_start returns (lines 1622-1631, 1719).
MsgNoFiles == "No files provided."
MsgBadFolder == "Invalid output folder."
MsgNoFfmpeg == "ffmpeg not found. Place ffmpeg.exe next to the application or add it to your system PATH."
MsgBadMode == "Unknown mode: m"
StartErrors == {MsgNoFiles, MsgBadFolder, MsgNoFfmpeg, MsgBadMode}
MsgNoActiveJobs == "No active jobs."
MsgJobNotFound == "Job not found."

\* What a bridge call returns: {'ok': True} or {'ok': False, 'error': ...}
Ret(call, okv, error) == [call |-> call, ok |-> okv, error |-> error]

\* The bridge after construction: no attribute _converter_jobs, no runner.
BridgeInit ==
    /\ TaskInit
    /\ bpc = "none"
    /\ budget = 0
    /\ ntasks = 0
    /\ NoBuild
    /\ rpc = [j \in Jobs |-> "none"]
    /\ rstop = [j \in Jobs |-> FALSE]
    /\ rcur = [j \in Jobs |-> 0]
    /\ ridx = [j \in Jobs |-> 0]
    /\ rok = [j \in Jobs |-> 0]
    /\ rtask = [j \in Jobs |-> [t \in JobTasks |->
                  [pc |-> "idle", stop |-> FALSE, proc |-> "none", code |-> 0]]]
    /\ revents = [j \in Jobs |-> <<>>]
    /\ rspc = [j \in Jobs |-> "idle"]
    /\ rstarget = [j \in Jobs |-> 0]
    /\ rnstops = [j \in Jobs |-> 0]
    /\ hasJobs = FALSE
    /\ registry = [id \in JobIds |-> "none"]
    /\ rid = [j \in Jobs |-> "none"]
    /\ rout = [j \in Jobs |-> <<>>]
    /\ cpc = [j \in Jobs |-> "none"]
    /\ cid = [j \in Jobs |-> "none"]
    /\ apiret = Ret("none", FALSE, "")
    /\ ncalls = 0

\* The runner object the next BatchRunner(...) makes.
NextRunner == IF rpc["jobA"] = "none" THEN "jobA" ELSE "jobB"

\* converter_start that puts a runner into the registry before it tests its
\* arguments.
StartErrorRegistered(id, error) ==
    /\ ncalls < MaxCalls
    /\ ncalls' = ncalls + 1
    /\ apiret' = Ret("start", FALSE, error)
    /\ hasJobs' = TRUE
    /\ registry' = [registry EXCEPT ![id] = "jobA"]
    /\ UNCHANGED <<rid, rout, cpc, cid>>
    /\ UNCHANGED <<jobsVars, soloVars, buildVars>>

\* converter_start returning an error: one of the tests at lines 1622-1631
\* fails, or the mode is unknown (line 1719).
StartError(id, error) ==
    /\ ncalls < MaxCalls
    /\ ncalls' = ncalls + 1
    /\ apiret' = Ret("start", FALSE, error)
    /\ UNCHANGED <<hasJobs, registry, rid, rout, cpc, cid>>
    /\ UNCHANGED <<jobsVars, soloVars, buildVars>>

\* Line 1744: self._converter_jobs[job_id] = runner
Register(id, j) == [registry EXCEPT ![id] = j]

\* converter_start up to line 1744: the tests pass, the tasks and the runner
\* are constructed over the files (the audio mode, target mp3, one output
\* directory for all jobs), and the runner is put into the registry.
StartRegister(id, files) ==
    /\ ncalls < MaxCalls
    /\ ncalls' = ncalls + 1
    /\ \E j \in Jobs : rpc[j] = "none"
    /\ LET j == NextRunner
       IN  /\ rpc' = [rpc EXCEPT ![j] = "new"]
           /\ rid' = [rid EXCEPT ![j] = id]
           /\ rout' = [rout EXCEPT ![j] =
                         [t \in JobTasks |-> OutputPath(files[t], OutputDir, "mp3")]]
           /\ hasJobs' = TRUE
           /\ registry' = Register(id, j)
    /\ UNCHANGED <<cpc, cid, apiret>>
    /\ UNCHANGED <<rstop, rcur, ridx, rok, rtask, revents, rspc, rstarget, rnstops>>
    /\ UNCHANGED <<soloVars, buildVars>>

\* Lines 1745-1746: runner.start(); return {'ok': True}
StartThread(j) ==
    /\ UNCHANGED ncalls
    /\ rpc[j] = "new"
    /\ rpc' = [rpc EXCEPT ![j] = "l412"]
    /\ apiret' = Ret("start", TRUE, "")
    /\ UNCHANGED <<hasJobs, registry, rid, rout, cpc, cid>>
    /\ UNCHANGED <<rstop, rcur, ridx, rok, rtask, revents, rspc, rstarget, rnstops>>
    /\ UNCHANGED <<soloVars, buildVars>>

\* self._converter_jobs.pop(job_id, None) (lines 1738 and 1755)
Pop(id) == [registry EXCEPT ![id] = "none"]

\* Line 420 with on_all_done (lines 1728-1738): converterDone is sent and
\* the entry of the job_id is removed.
BridgeAllDone(j) ==
    /\ rpc[j] = "l420"
    /\ JobEmit(j, <<AllDone(rok[j], 0)>>)
    /\ rpc' = [rpc EXCEPT ![j] = "end"]
    /\ registry' = Pop(rid[j])
    /\ UNCHANGED <<hasJobs, rid, rout, cpc, cid, apiret, ncalls>>
    /\ UNCHANGED <<rstop, rcur, ridx, rok, rtask, rspc, rstarget, rnstops>>
    /\ UNCHANGED <<soloVars, buildVars>>

\* converter_cancel that finds no runner (lines 1750-1751, 1757).
CancelNone(id) ==
    /\ ncalls < MaxCalls
    /\ ncalls' = ncalls + 1
    /\ ~hasJobs \/ registry[id] = "none"
    /\ apiret' = Ret("cancel", FALSE,
                     IF hasJobs THEN MsgJobNotFound ELSE MsgNoActiveJobs)
    /\ UNCHANGED <<hasJobs, registry, rid, rout, cpc, cid>>
    /\ UNCHANGED <<jobsVars, soloVars, buildVars>>

\* Lines 1752-1754: the runner of the job_id is found and its stop() called.
CancelFound(id) ==
    /\ ncalls < MaxCalls
    /\ ncalls' = ncalls + 1
    /\ hasJobs
    /\ registry[id] # "none"
    /\ LET j == registry[id]
       IN  /\ rspc[j] = "idle"
           /\ cpc[j] = "none"
           /\ rspc' = [rspc EXCEPT ![j] = "l405"]
           /\ cpc' = [cpc EXCEPT ![j] = "l1754"]
           /\ cid' = [cid EXCEPT ![j] = id]
    /\ UNCHANGED <<hasJobs, registry, rid, rout, apiret>>
    /\ UNCHANGED <<rpc, rstop, rcur, ridx, rok, rtask, revents, rstarget, rnstops>>
    /\ UNCHANGED <<soloVars, buildVars>>

\* Lines 1755-1756: stop() has returned; pop the job_id; return {'ok': True}
CancelPop(j) ==
    /\ UNCHANGED ncalls
    /\ cpc[j] = "l1754"
    /\ rspc[j] = "idle"
    /\ registry' = Pop(cid[j])
    /\ cpc' = [cpc EXCEPT ![j] = "none"]
    /\ apiret' = Ret("cancel", TRUE, "")
    /\ UNCHANGED <<hasJobs, rid, rout, cid>>
    /\ UNCHANGED <<jobsVars, soloVars, buildVars>>

BridgeCall ==
    \/ \E id \in JobIds :
          \/ \E e \in StartErrors : StartError(id, e)
          \/ \E files \in FileLists : StartRegister(id, files)
          \/ CancelNone(id)
          \/ CancelFound(id)
    \/ \E j \in Jobs : StartThread(j) \/ CancelPop(j)

\* The steps of runner j's worker thread.
BridgeThreadStep(j) ==
    \/ JobCheck(j)
    \/ JobAssign(j)
    \/ JobItemStart(j)
    \/ JobCount(j)
    \/ BridgeAllDone(j)
    \/ \E t \in JobTasks :
          \/ JobRun(j, t)
          \/ JobPopen(j, t)
          \/ JobLoop(j, t)
          \/ JobFinal(j, t)

\* The worker and the children of its tasks.
BridgeWorkerStep(j) ==
    \/ BridgeThreadStep(j)
    \/ \E t \in JobTasks : \E c \in JobExitCodes : JobChildExit(j, t, c)

\* The steps of a runner's stop(), which converter_cancel has called
\* (CancelFound).
BridgeStopStep(j) ==
    \/ JobStopSet(j)
    \/ JobStopForward(j)
    \/ JobTaskStopSet(j)
    \/ JobTaskStopKill(j)

BridgeNext ==
    \/ BridgeCall
    \/ \E j \in Jobs : BridgeWorkerStep(j) \/ BridgeStopStep(j)

BridgeSpec == BridgeInit /\ [][BridgeNext]_vars

\* The same, with the threads scheduled: each worker, each stop() and each
\* bridge call under way keeps running while it can; nothing is assumed of
\* a child, which may never exit, nor of the calls the page makes.
FairBridgeSpec ==
    /\ BridgeSpec
    /\ \A j \in Jobs :
          /\ WF_vars(BridgeThreadStep(j))
          /\ WF_vars(BridgeStopStep(j))
          /\ WF_vars(StartThread(j))
          /\ WF_vars(CancelPop(j))

\* ------------------------------------------- building the argument list
\* A VideoConverter constructed with any of the options, nothing run yet.
ArgsInit ==
    /\ TaskInit
    /\ bpc = "none"
    /\ budget = 0
    /\ ntasks = 0
    /\ NoJobs
    /\ NoBridge
    /\ opts \in VideoOptions
    /\ args = <<>>
    /\ apc = "new"

\* Line 259 of VideoConverter.run: args = self._build_args()
Build ==
    /\ apc = "new"
    /\ args' = BuildArgs(opts)
    /\ apc' = "built"
    /\ UNCHANGED <<opts, soloVars, jobsVars, bridgeVars>>

ArgsNext == Build

ArgsSpec == ArgsInit /\ [][ArgsNext]_vars

\* ------------------------------- constructing a task; the audio arguments
InputPaths == {"in/a.mkv", "x/a.wav", "a.wav", "in/a.b.wav", "song.wav"}
OutputDirs == {"out", "out/"}
TargetFormats == {"mp3", "flac", "mp4"}
Bitrates == {"192k", "320k"}

\* The arguments of a constructor call, no task made of them yet.
PathInit ==
    /\ TaskInit
    /\ bpc = "none"
    /\ budget = 0
    /\ ntasks = 0
    /\ NoJobs
    /\ NoBridge
    /\ opts \in [ kind : {"none"}, input_path : InputPaths,
                  output_dir : OutputDirs, out_format : TargetFormats,
                  bitrate : Bitrates, output_path : {""} ]
    /\ args = <<>>
    /\ apc = "call"

\* AudioConverter.__init__ (lines 174-180)
AudioConstruct ==
    /\ apc = "call"
    /\ opts' = [opts EXCEPT
                  !.kind = "audio",
                  !.output_path =
                      OutputPath(opts.input_path, opts.output_dir, opts.out_format)]
    /\ apc' = "new"
    /\ UNCHANGED <<args, soloVars, jobsVars, bridgeVars>>

\* VideoConverter.__init__ (lines 233-239), the other options left aside.
VideoConstruct ==
    /\ apc = "call"
    /\ opts' = [opts EXCEPT
                  !.kind = "video",
                  !.output_path =
                      OutputPath(opts.input_path, opts.output_dir, opts.out_format)]
    /\ apc' = "new"
    /\ UNCHANGED <<args, soloVars, jobsVars, bridgeVars>>

\* The audio arguments with the encoder named for the target format.
AudioArgsByFormat(o) ==
    <<"-i", o.input_path, "-vn">>
        \o (IF o.out_format = "mp3" THEN <<"-c:a", "libmp3lame">> ELSE <<>>)
        \o <<"-b:a", o.bitrate, "-y", o.output_path>>

\* Lines 186-191 of AudioConverter.run
AudioRunArgs(o) ==
    <<"-i", o.input_path, "-vn", "-b:a", o.bitrate, "-y", o.output_path>>

\* AudioConverter.run up to the call of _run_ffmpeg (lines 182-191)
AudioBuild ==
    /\ apc = "new"
    /\ opts.kind = "audio"
    /\ args' = AudioRunArgs(opts)
    /\ apc' = "built"
    /\ UNCHANGED <<opts, soloVars, jobsVars, bridgeVars>>

PathNext == AudioConstruct \/ VideoConstruct \/ AudioBuild

PathSpec == PathInit /\ [][PathNext]_vars

\* ================================================================== claims
\* The callbacks of kind k made so far for task t, in order.
EventsOf(t, k) == SelectSeq(history, LAMBDA e : e.task = t /\ e.kind = k)
DoneEvents(t) == EventsOf(t, "done")
ProgressEvents(t) == EventsOf(t, "progress")
\* progress_cb and done_cb calls of task t, in order.
Callbacks(t) ==
    SelectSeq(history, LAMBDA e : e.task = t /\ e.kind \in {"progress", "done"})
\* The position in history of the moment task t's flag was first set
\* (t = 0: the batch's flag); 0 if it never was.
StopPos(t) ==
    LET hits == {i \in 1..Len(history) :
                    history[i].kind = "stop" /\ history[i].task = t}
    IN  IF hits = {} THEN 0 ELSE CHOOSE i \in hits : TRUE

\* C1: a call of run() makes exactly one done_cb call: none before run() is
\* called, at most one at any moment, and exactly one once run() has returned,
\* whatever stop() calls interleave and whatever the child does.
C1_DoneExactlyOnce ==
    \A t \in Tasks :
        /\ Len(DoneEvents(t)) <= 1
        /\ pc[t] = "idle" => Len(DoneEvents(t)) = 0
        /\ pc[t] = "ret" => Len(DoneEvents(t)) = 1

\* run() has returned after a stop() that came while the child was running.
C1_Witness ==
    /\ pc[1] = "ret"
    /\ stopAt[1] = "l135"
    /\ Len(DoneEvents(1)) = 1

\* C2: once BatchRunner.stop() has set the batch's flag, no task is started:
\* no item_start_cb call follows the moment the flag was set.
C2_NoStartAfterStop ==
    \A j \in 1..Len(history) :
        (StopPos(0) # 0 /\ j > StopPos(0)) => history[j].kind # "item_start"

\* C3: after BatchRunner.stop() is called while a task is inside run(), the
\* batch comes to its end (all_done_cb fires), whatever the child does or
\* fails to do from then on.
C3_StopEndsBatch == (stopDuring # 0) ~> (bpc = "end")

\* The task is Running: its process was spawned, done_cb not yet called.
RunningPcs == {"l130", "l132", "l135", "l151", "l154", "l155", "l157", "l158", "l160"}
\* Running, and the worker has yet to test the flag a last time (line 154).
BeforeLastTest == {"l130", "l132", "l135", "l151", "l154"}

\* progress_cb calls of task t made after its flag was first set.
ProgressAfterStop(t) ==
    Cardinality({j \in 1..Len(history) :
        /\ StopPos(t) # 0
        /\ j > StopPos(t)
        /\ history[j].kind = "progress"
        /\ history[j].task = t})

\* C4 as stated: stop() invoked while the task is running gives exactly one
\* done_cb call, (false, "Conversion cancelled."), and no live child after it.
C4_StopWhileRunningCancels ==
    \A t \in Tasks :
        (stopAt[t] \in RunningPcs /\ pc[t] = "ret") =>
            /\ DoneEvents(t) = <<Done(t, FALSE, MsgCancelled, 0)>>
            /\ proc[t] # "alive"

\* C4 amended: stop() invoked while the task is running gives exactly one
\* done_cb call and no live child after it; the call is (false, "Conversion
\* cancelled.") when stop() set the flag before the worker's last test of it
\* (line 154), and otherwise reports the exit code's outcome.
C4_StopBeforeLastTestCancels ==
    \A t \in Tasks :
        (stopAt[t] \in RunningPcs /\ pc[t] = "ret") =>
            /\ Len(DoneEvents(t)) = 1
            /\ proc[t] # "alive"
            /\ stopAt[t] \in BeforeLastTest =>
                  DoneEvents(t)[1] = Done(t, FALSE, MsgCancelled, 0)
            /\ stopAt[t] \notin BeforeLastTest =>
                  \/ DoneEvents(t)[1] = Done(t, TRUE, MsgComplete, 0)
                  \/ DoneEvents(t)[1] = Done(t, FALSE, MsgExit, exit_code[t][1])

\* stop() came while the worker was blocked in read(1): the child was killed
\* and the task reported the cancellation.
C4_Witness ==
    /\ pc[1] = "ret"
    /\ stopAt[1] = "l135"
    /\ code[1] = Killed
    /\ DoneEvents(1) = <<Done(1, FALSE, MsgCancelled, 0)>>

\* C5 as stated: no progress_cb call of a running task follows stop().
C5_NoProgressAfterStop ==
    \A t \in Tasks : stopAt[t] \in RunningPcs => ProgressAfterStop(t) = 0

\* C5 amended: at most one progress_cb call of the task follows the moment
\* stop() set the flag (the call of the iteration, or of the success report,
\* whose test of the flag had already passed).
C5_AtMostOneProgressAfterStop ==
    \A t \in Tasks : ProgressAfterStop(t) <= 1

\* stop() came between the loop's test and its read; the line read then was
\* reported, and the task ended.
C5_Witness ==
    /\ pc[1] = "ret"
    /\ stopAt[1] = "l135"
    /\ ProgressAfterStop(1) = 1

\* C6: the percentages passed to progress_cb within one task never decrease.
C6_PercentNonDecreasing ==
    \A t \in Tasks :
        \A i, j \in 1..Len(ProgressEvents(t)) :
            i < j => ProgressEvents(t)[i].a <= ProgressEvents(t)[j].a

\* C7: every percentage reported is in 0..99, except 100, which is reported
\* only after the child has exited with code 0.
C7_HundredOnlyAfterExitZero ==
    \A t \in Tasks :
        \A i \in 1..Len(ProgressEvents(t)) :
            LET e == ProgressEvents(t)[i]
            IN  \/ e.a \in 0..99
                \/ /\ e.a = 100
                   /\ proc[t] = "exited"
                   /\ code[t] = 0
                   /\ exit_code[t] = <<0>>

\* The child is alive and a marker equal to the total duration (01:01:01 of
\* 3661 s) was reported as 99.
C7_Witness ==
    /\ proc[1] = "alive"
    /\ dur[1] = <<3661>>
    /\ \E i \in 1..Len(ProgressEvents(1)) :
          ProgressEvents(1)[i] = Progress(1, 99, "Converting... %")

\* Task t ended Succeeded: its last two callbacks are progress_cb(100, 'Done!')
\* and done_cb(True, 'Conversion complete.').
EndsSucceeded(t) ==
    LET c == Callbacks(t)
    IN  /\ Len(c) >= 2
        /\ c[Len(c) - 1] = Progress(t, 100, "Done!")
        /\ c[Len(c)] = Done(t, TRUE, MsgComplete, 0)

\* C8 as stated: when the stream ends and the child has exited with code 0,
\* the task ends Succeeded.
C8_ExitZeroSucceeds ==
    \A t \in Tasks : (pc[t] = "ret" /\ exit_code[t] = <<0>>) => EndsSucceeded(t)

\* C8 amended: when the stream ends and the child has exited with code 0, the
\* task ends Succeeded, unless stop() set the flag before the worker tested it
\* after the exit (line 154); then it ends Cancelled.
C8_ExitZeroUnstoppedSucceeds ==
    \A t \in Tasks :
        (pc[t] = "ret" /\ exit_code[t] = <<0>>) =>
            IF stopAt[t] \in {"never", "l157", "l158", "ret"}
            THEN EndsSucceeded(t)
            ELSE DoneEvents(t) = <<Done(t, FALSE, MsgCancelled, 0)>>

\* A child that exited with 0, no stop(): Succeeded.
C8_Witness ==
    /\ pc[1] = "ret"
    /\ exit_code[1] = <<0>>
    /\ stopAt[1] = "never"
    /\ EndsSucceeded(1)

\* C9: done_cb reports success only after exit code 0; a nonzero exit code N
\* with no cancellation requested is reported as (false, message with N), and
\* no percent 100 is reported.
C9_SuccessOnlyOnExitZero ==
    \A t \in Tasks :
        /\ \A i \in 1..Len(DoneEvents(t)) :
              DoneEvents(t)[i].ok =>
                  proc[t] = "exited" /\ code[t] = 0 /\ exit_code[t] = <<0>>
        /\ (pc[t] = "ret" /\ exit_code[t] \notin {<<>>, <<0>>} /\ ~stopFlag[t]) =>
              /\ DoneEvents(t) = <<Done(t, FALSE, MsgExit, exit_code[t][1])>>
              /\ \A i \in 1..Len(ProgressEvents(t)) : ProgressEvents(t)[i].a # 100

\* The child exited with code 2, nobody called stop().
C9_Witness ==
    /\ pc[1] = "ret"
    /\ ~stopFlag[1]
    /\ code[1] = 2
    /\ DoneEvents(1) = <<Done(1, FALSE, MsgExit, 2)>>

\* C10: a successful task's callbacks end with exactly one progress_cb(100),
\* directly followed by done_cb(true, ...); a task that ends Failed or
\* Cancelled makes no progress_cb(100) call; before done_cb, a 100 can only
\* be the last callback made.
C10_FinalHundred ==
    \A t \in Tasks :
        LET c == Callbacks(t)
            hundreds == {i \in 1..Len(c) : c[i].kind = "progress" /\ c[i].a = 100}
        IN  IF DoneEvents(t) = <<>>
            THEN hundreds \subseteq {Len(c)} /\ (hundreds # {} => pc[t] = "l158")
            ELSE /\ c[Len(c)].kind = "done"
                 /\ IF c[Len(c)].ok
                    THEN hundreds = {Len(c) - 1}
                    ELSE hundreds = {}

\* A successful task that reported marker progress before its final 100.
C10_Witness ==
    /\ pc[1] = "ret"
    /\ EndsSucceeded(1)
    /\ Len(ProgressEvents(1)) >= 3

\* done_cb of task t has reported that the process could not be spawned.
SpawnFailed(t) ==
    \E i \in 1..Len(DoneEvents(t)) :
        DoneEvents(t)[i].msg \in {MsgNotFound, MsgSpawn}

\* C11: when the process cannot be spawned, done_cb is called once, with
\* success false and a message naming the spawn failure; run() has returned
\* without entering the read loop (nothing read, no exit code taken); no
\* process handle is held; and the only progress_cb call is the initial 0,
\* none derived from a marker.  Conversely a task past the spawn that holds
\* no process handle has reported a spawn failure.
C11_SpawnFailureReported ==
    \A t \in Tasks :
        /\ SpawnFailed(t) =>
              /\ Len(DoneEvents(t)) = 1
              /\ DoneEvents(t)[1].ok = FALSE
              /\ pc[t] = "ret"
              /\ proc[t] = "none"
              /\ buffer[t] = <<>> /\ pipe[t] = <<>> /\ exit_code[t] = <<>>
              /\ ProgressEvents(t) = <<Progress(t, 0, "Getting info...")>>
        /\ (pc[t] \notin {"idle", "l113"} /\ proc[t] = "none") => SpawnFailed(t)

\* The executable is missing, and stop() was called before the spawn: the
\* task reports the spawn failure, not a cancellation.
C11_Witness ==
    /\ DoneEvents(1) = <<Done(1, FALSE, MsgNotFound, 0)>>
    /\ stopAt[1] = "l113"
    /\ pc[1] = "ret"

\* C12: stop() is idempotent.  Its first step (line 101) leaves the flag set
\* and touches nothing else of any task; its second step (lines 102-106)
\* returns with the flag set and the process not alive, changes only the
\* process it killed, and changes nothing at all when there was no live
\* process (none yet, or already exited).  So a call made when the flag is
\* set and the process is not alive, that is any call after the first,
\* leaves the task exactly as it was, whether it comes before run(), during
\* it, or after the process exited.
C12_StopIdempotent ==
    [][ /\ (spc = "l101" /\ spc' = "l102") =>
              /\ stopFlag'[starget]
              /\ \A u \in Tasks \ {starget} : stopFlag'[u] = stopFlag[u]
              /\ UNCHANGED <<pc, proc, code, pipe, budget, buffer, dur, exit_code>>
              /\ stopFlag[starget] => UNCHANGED taskVars
        /\ (spc = "l102" /\ spc' = "idle") =>
              /\ stopFlag'[starget]
              /\ proc'[starget] # "alive"
              /\ UNCHANGED <<pc, stopFlag, pipe, budget, buffer, dur, exit_code>>
              /\ \A u \in Tasks \ {starget} :
                    proc'[u] = proc[u] /\ code'[u] = code[u]
              /\ proc[starget] # "alive" => UNCHANGED taskVars
      ]_vars

\* Two calls of stop() have returned, the first made before run(); the
\* process exited by itself with code 0: flag set, exit code untouched.
C12_Witness ==
    /\ nstops = 2
    /\ spc = "idle"
    /\ stopFlag[1]
    /\ proc[1] = "exited"
    /\ code[1] = 0
    /\ stopAt[1] = "idle"

\* C13: the tasks of a batch run one at a time and in list order: at most
\* one task is inside run(), at most one child process is alive, and a task
\* has left its initial state only when every task before it in the list
\* has returned and left no live process.
C13_OneAtATime ==
    /\ Cardinality({t \in Tasks : pc[t] \notin {"idle", "ret"}}) <= 1
    /\ Cardinality({t \in Tasks : proc[t] = "alive"}) <= 1
    /\ \A t \in Tasks : pc[t] # "idle" =>
          \A u \in 1..(t - 1) : pc[u] = "ret" /\ proc[u] # "alive"

\* The second task's process is alive after the first task's has exited.
C13_Witness ==
    /\ pc[1] = "ret"
    /\ proc[1] = "exited"
    /\ proc[2] = "alive"

\* A call of item_start_cb, progress_cb or done_cb.
IsTaskEvent(e) == e.kind \in {"item_start", "progress", "done"}
\* Those calls of the batch, in order.
TaskEvents == SelectSeq(history, IsTaskEvent)
\* Those of task t.
TaskEventsOf(t) == SelectSeq(TaskEvents, LAMBDA e : e.task = t)

\* C14: the events of a batch are grouped by task, in list order: from one
\* event to the next the task never goes back, so every item-start, progress
\* and done event of task i precedes the item-start of task i+1.  The events
\* of one task begin with its item-start, which no event of that task
\* precedes, and no event of that task follows its done event; a task
\* inside run() has events and a returned task has its done event.
C14_EventsInTaskOrder ==
    LET E == TaskEvents
    IN  /\ \A k \in 1..(Len(E) - 1) :
              /\ E[k].task <= E[k + 1].task
              /\ E[k].task = E[k + 1].task =>
                    E[k + 1].kind # "item_start" /\ E[k].kind # "done"
              /\ E[k].task < E[k + 1].task => E[k + 1].kind = "item_start"
        /\ E # <<>> => E[1].kind = "item_start"
        /\ \A t \in Tasks :
              /\ pc[t] # "idle" => \E k \in 1..Len(E) : E[k].task = t
              /\ pc[t] = "ret" =>
                    \E k \in 1..Len(E) : E[k].task = t /\ E[k].kind = "done"

\* Both tasks have made all their calls: item-start, progress, done.
C14_Witness ==
    /\ pc[2] = "ret"
    /\ Len(TaskEventsOf(1)) >= 3
    /\ Len(TaskEventsOf(2)) >= 3
    /\ TaskEvents = TaskEventsOf(1) \o TaskEventsOf(2)

\* item_start_cb calls of the batch, in order.
ItemStarts == SelectSeq(history, LAMBDA e : e.kind = "item_start")

\* C15: the k-th item_start_cb call is the one of the k-th task of the list,
\* with arguments (k - 1, len(tasks), basename of that task's input path): so
\* each started task has exactly one call, the indices are 0, 1, 2, ...
\* without gaps, and the started tasks are a prefix of the list.  A task has
\* left its initial state (run() called) only after its call.
C15_ItemStartOncePerTask ==
    LET S == ItemStarts
    IN  /\ Len(S) <= ntasks
        /\ \A k \in 1..Len(S) :
              /\ S[k].task = k
              /\ S[k].a = k - 1
              /\ S[k].b = ntasks
              /\ S[k].msg = Basename(InputPath(k))
        /\ \A t \in Tasks : pc[t] # "idle" => t <= Len(S)

\* Both tasks of a list of two were started and the second has returned.
C15_Witness ==
    /\ ntasks = 2
    /\ Len(ItemStarts) = 2
    /\ ItemStarts[2].a = 1
    /\ ItemStarts[2].msg = "b.wav"
    /\ pc[2] = "ret"

\* The positions in history of the all_done_cb calls.
AllDonePos == {i \in 1..Len(history) : history[i].kind = "all_done"}

\* C16: all_done_cb is called at most once, and exactly once by the time the
\* worker has finished, however it left the loop (list exhausted, flag seen
\* set, stopped before start(), empty list).  When it is called every task
\* that was started has returned and made its done_cb call, and no
\* item-start, progress, done or second all-done event follows it.
C16_AllDoneOnceAndLast ==
    /\ Cardinality(AllDonePos) <= 1
    /\ bpc = "end" <=> AllDonePos # {}
    /\ bpc \in {"l420", "end"} =>
          /\ idx = ntasks \/ batchStop
          /\ \A t \in Tasks : pc[t] \in {"idle", "ret"}
          /\ \A t \in 1..Len(ItemStarts) : Len(DoneEvents(t)) = 1
    /\ \A i \in AllDonePos : \A j \in (i + 1)..Len(history) :
          history[j].kind = "stop"

\* A batch of two cancelled during its first task: finished, one task
\* started, all_done_cb called.
C16_Witness ==
    /\ bpc = "end"
    /\ ntasks = 2
    /\ batchStop
    /\ Len(ItemStarts) = 1
    /\ AllDonePos # {}

\* C17: the counts given to all_done_cb are not outcomes: the first is the
\* number of item_start_cb calls, whatever the tasks reported (failure and
\* cancellation included), and the second is 0.
C17_CountsAreStartedTasks ==
    /\ fail = 0
    /\ ok = idx
    /\ \A i \in AllDonePos :
          /\ history[i].a = Len(ItemStarts)
          /\ history[i].b = 0

\* all_done_cb(2, 0) after a first task that failed with a nonzero exit code
\* and a second one that was cancelled.
C17_Witness ==
    /\ bpc = "end"
    /\ history[Len(history)] = AllDone(2, 0)
    /\ DoneEvents(1) = <<Done(1, FALSE, MsgExit, 1)>>
    /\ DoneEvents(2) = <<Done(2, FALSE, MsgCancelled, 0)>>

\* Task t has returned from a failure of its own: its process could not be
\* spawned, or exited with a nonzero code.
TaskFailed(t) ==
    /\ pc[t] = "ret"
    /\ \/ proc[t] = "none"
       \/ exit_code[t] # <<>> /\ exit_code[t][1] # 0

\* C18: a task's failure is reported by that task's one done_cb call, with
\* success false, and ends that task only: with the batch's flag not set the
\* worker leaves its loop only when the list is exhausted, so the task after
\* a failed one is started.
C18_FailureEndsTaskOnly ==
    /\ \A t \in Tasks : TaskFailed(t) =>
          /\ Len(DoneEvents(t)) = 1
          /\ ~DoneEvents(t)[1].ok
    /\ (bpc \in {"l420", "end"} /\ ~batchStop) => idx = ntasks

\* The first task failed with exit code 1, no stop() was called, and the
\* second task has been started.
C18_Witness ==
    /\ DoneEvents(1) = <<Done(1, FALSE, MsgExit, 1)>>
    /\ ~batchStop
    /\ nstops = 0
    /\ Len(ItemStarts) = 2
    /\ pc[2] = "l130"

\* run() has been called on task t and its duration probe returned None.
ProbeFailed(t) == pc[t] # "idle" /\ dur[t] = <<>>

\* C19: a failed duration probe is not fatal.  The task goes on to the spawn
\* (it returns without a process only on a spawn failure); its progress_cb
\* calls are the initial 0 and the final 100 only, none derived from a
\* marker; and its outcome is the one the exit status dictates: exit code 0
\* ends Succeeded with the final 100, a nonzero code N is reported as
\* (false, message with N), unless stop() set the flag before the last test.
C19_ProbeFailureNotFatal ==
    \A t \in Tasks : ProbeFailed(t) =>
        /\ \A k \in 1..Len(ProgressEvents(t)) :
              ProgressEvents(t)[k] \in {Progress(t, 0, "Getting info..."),
                                        Progress(t, 100, "Done!")}
        /\ (pc[t] = "ret" /\ proc[t] = "none") => SpawnFailed(t)
        /\ (pc[t] = "ret" /\ ~SpawnFailed(t)) =>
              proc[t] = "exited" /\ Len(DoneEvents(t)) = 1
        /\ (pc[t] = "ret" /\ exit_code[t] = <<0>> /\ stopAt[t] = "never") =>
              EndsSucceeded(t)
        /\ (pc[t] = "ret" /\ exit_code[t] \notin {<<>>, <<0>>}
                /\ stopAt[t] = "never") =>
              DoneEvents(t) = <<Done(t, FALSE, MsgExit, exit_code[t][1])>>

\* No duration; the child wrote all it could, all of it was read, and the
\* child exited with 0: Succeeded, progress 0 then 100.
C19_Witness ==
    /\ ProbeFailed(1)
    /\ pc[1] = "ret"
    /\ budget = 0
    /\ EndsSucceeded(1)
    /\ ProgressEvents(1) = <<Progress(1, 0, "Getting info..."),
                             Progress(1, 100, "Done!")>>

\* The step in which task t's loop reads the terminator of a line that holds
\* a time marker, the duration probe having failed.
ReadsMarkerLineWithoutDuration(t) ==
    /\ ProbeFailed(t)
    /\ pc[t] = "l135"
    /\ pipe[t] # <<>>
    /\ Head(pipe[t]) = NL
    /\ FirstMarker(buffer[t]) # <<>>
    /\ pc'[t] = "l130"

\* C20: when the duration probe has failed, a progress line of the child
\* still leads to a status report: the step that completes a line holding a
\* time marker makes a progress_cb call.
C20_StatusStillUpdates ==
    [][ \A t \in Tasks :
          ReadsMarkerLineWithoutDuration(t) =>
              Len(ProgressEvents(t))' = Len(ProgressEvents(t)) + 1
      ]_vars

\* C21: jobs share no mutable state.  A step of stop() on one runner (of
\* BatchRunner.stop or of the task stop() it forwards to) leaves the flag,
\* the current task, every task's flag and process handle, the worker and
\* the callback sequence of every other runner unchanged.
C21_StopTouchesOwnJobOnly ==
    [][ \A j \in Jobs :
          rspc'[j] # rspc[j] =>
              \A k \in Jobs \ {j} :
                  /\ rstop'[k] = rstop[k]
                  /\ rcur'[k] = rcur[k]
                  /\ rtask'[k] = rtask[k]
                  /\ revents'[k] = revents[k]
                  /\ rpc'[k] = rpc[k]
                  /\ rspc'[k] = rspc[k]
      ]_vars

\* Job A was stopped while its first task's process was live, and killed it;
\* job B, running at the same time, went through its whole list unstopped.
C21_Witness ==
    /\ rstop["jobA"]
    /\ rtask["jobA"][1].code = Killed
    /\ rpc["jobA"] = "end"
    /\ ~rstop["jobB"]
    /\ rpc["jobB"] = "end"
    /\ rok["jobB"] = NJobTasks
    /\ \A t \in JobTasks :
          ~rtask["jobB"][t].stop /\ rtask["jobB"][t].code = 0

\* The number of positions of list a that hold flag followed by val.
PairCount(a, flag, val) ==
    Cardinality({i \in 1..(Len(a) - 1) : a[i] = flag /\ a[i + 1] = val})
\* The list ends with the force-overwrite flag and the derived output path.
EndsWithOutput ==
    /\ Len(args) >= 2
    /\ args[Len(args) - 1] = "-y"
    /\ args[Len(args)] =
           OsJoin(OutputDir,
                  JoinWith(".", <<SplitextRoot(OsBasename(opts.input_path)),
                                  opts.out_format>>))

\* C22 as stated: for every combination of video options the built argument
\* list holds the input flag followed by the input path exactly once and
\* ends with the force-overwrite flag and the derived output path, custom
\* flags or not.
C22_InputOnceOutputLast ==
    apc = "built" =>
        /\ PairCount(args, "-i", opts.input_path) = 1
        /\ EndsWithOutput

\* C22 amended: the built argument list always ends with the force-overwrite
\* flag and the derived output path and always holds the input flag followed
\* by the input path; it holds it exactly once unless the custom flags of
\* advanced mode themselves contain an input flag.
C22_InputOnceUnlessCustomInput ==
    apc = "built" =>
        /\ EndsWithOutput
        /\ PairCount(args, "-i", opts.input_path) >= 1
        /\ ~(opts.advanced /\ Contains(opts.custom_flags, "-i"))
              => PairCount(args, "-i", opts.input_path) = 1

\* An advanced task with a custom flag, built.
C22_Witness ==
    /\ apc = "built"
    /\ opts.advanced
    /\ opts.custom_flags = "-an"
    /\ opts.out_format = "webm"
    /\ \E i \in 1..Len(args) : args[i] = "-an"
    /\ PairCount(args, "-i", "in/a.mkv") = 1
    /\ args[Len(args)] = "out/a.webm"

\* Option record o with every manual field at the constructor's default.
ManualDefaults(o) ==
    [o EXCEPT !.v_encoder = "libx264", !.v_bitrate = "auto",
              !.fps = "original", !.custom_flags = "",
              !.a_encoder = "aac", !.a_bitrate = "original",
              !.a_channels = "original", !.a_samplerate = "original",
              !.ref_frames = 0, !.use_cabac = TRUE]

\* C23: with advanced false the built argument list does not depend on the
\* manual fields: it is the list built for the same input, output, target
\* format, resolution, quality tier and use_gpu with every manual field at
\* its default, so any two option sets differing in manual fields only
\* build the same list.
C23_SimpleIgnoresManualFields ==
    (apc = "built" /\ ~opts.advanced) =>
        /\ ManualDefaults(opts) \in VideoOptions
        /\ args = BuildArgs(ManualDefaults(opts))

HwAccelFlags == {"-hwaccel", "-hwaccel_output_format"}

VideoEncoderOf(a) ==
    LET at == {i \in 1..(Len(a) - 1) : a[i] = "-c:v"}
    IN  IF at = {} THEN ""
        ELSE a[(CHOOSE i \in at : \A k \in at : i <= k) + 1]

\* C25: with use_gpu set, a target other than gif and a requested encoder
\* other than "copy", the encoder of the built list is h264_nvenc for the
\* H.264 names and hevc_nvenc for the H.265 names, and any other name is
\* kept; with use_gpu unset, or encoder "copy", the encoder is the requested
\* one.
C25_EncoderSubstitution ==
    apc = "built" =>
        LET req == RequestedEncoder(opts)
            enc == VideoEncoderOf(args)
        IN  /\ (opts.use_gpu /\ opts.out_format # "gif" /\ req # "copy") =>
                  /\ req \in {"libx264", "h264"} => enc = "h264_nvenc"
                  /\ req \in {"libx265", "hevc", "h265"} => enc = "hevc_nvenc"
                  /\ req \notin {"libx264", "h264", "libx265", "hevc", "h265"}
                        => enc = req
            /\ (~opts.use_gpu \/ req = "copy") => enc = req

\* A GPU task asking for libx265, built with the NVENC encoder.
C25_Witness ==
    /\ apc = "built"
    /\ opts.use_gpu
    /\ opts.advanced
    /\ opts.out_format = "mp4"
    /\ opts.v_encoder = "libx265"
    /\ VideoEncoderOf(args) = "hevc_nvenc"

\* The flags of _build_video_quality_args.
VideoQualityFlags ==
    {"-b:v", "-maxrate", "-crf", "-preset", "-x264-params", "-refs"}
HasFlag(a, flags) == \E i \in 1..Len(a) : a[i] \in flags

HardwareEncoder == Contains(VideoEncoderOf(args), "nvenc")
\* The built list is one of advanced mode whose encoder is not pass-through,
\* so that quality arguments are built.
AdvancedQuality ==
    apc = "built" /\ opts.advanced /\ RequestedEncoder(opts) # "copy"

\* C27: in advanced mode with a video bitrate other than "auto", for an
\* encoder that is not pass-through: a bare integer gets the suffix "k"; a
\* value holding a digit is the target bitrate of the list, once, and with
\* a hardware encoder, and only then, also its max-rate; a value holding no
\* digit gives neither a bitrate nor a max-rate argument.
C27_ExplicitBitrate ==
    (AdvancedQuality /\ opts.v_bitrate \notin {"auto", ""}) =>
        LET bv == IF opts.v_bitrate = "3000" THEN "3000k" ELSE opts.v_bitrate
        IN  /\ IsDigit(opts.v_bitrate) => opts.v_bitrate = "3000"
            /\ AnyDigit(opts.v_bitrate) =>
                  /\ PairCount(args, "-b:v", bv) = 1
                  /\ Cardinality({i \in 1..Len(args) : args[i] = "-b:v"}) = 1
                  /\ HardwareEncoder => PairCount(args, "-maxrate", bv) = 1
                  /\ ~HardwareEncoder => ~HasFlag(args, {"-maxrate"})
            /\ ~AnyDigit(opts.v_bitrate) => ~HasFlag(args, {"-b:v", "-maxrate"})
            /\ ~HasFlag(args, {"-crf"})

\* Bitrate "3000" with a hardware encoder: "3000k" as bitrate and max-rate.
C27_Witness ==
    /\ apc = "built"
    /\ opts.advanced
    /\ opts.v_bitrate = "3000"
    /\ HardwareEncoder
    /\ PairCount(args, "-b:v", "3000k") = 1
    /\ PairCount(args, "-maxrate", "3000k") = 1

\* C28: in advanced mode with the video bitrate "auto", for an encoder that
\* is not pass-through: a hardware encoder gets the bitrate "5000k" and no
\* constant quality, libx264 gets the constant quality "23" and no bitrate,
\* any other encoder gets neither.
C28_AutomaticBitrate ==
    (AdvancedQuality /\ opts.v_bitrate = "auto") =>
        /\ ~HasFlag(args, {"-maxrate", "-preset"})
        /\ IF HardwareEncoder
           THEN /\ PairCount(args, "-b:v", "5000k") = 1
                /\ Cardinality({i \in 1..Len(args) : args[i] = "-b:v"}) = 1
                /\ ~HasFlag(args, {"-crf"})
           ELSE IF VideoEncoderOf(args) = "libx264"
           THEN /\ PairCount(args, "-crf", "23") = 1
                /\ Cardinality({i \in 1..Len(args) : args[i] = "-crf"}) = 1
                /\ ~HasFlag(args, {"-b:v"})
           ELSE ~HasFlag(args, {"-b:v", "-crf"})

\* Automatic bitrate with an encoder that is neither hardware nor libx264.
C28_Witness ==
    /\ apc = "built"
    /\ opts.advanced
    /\ opts.v_bitrate = "auto"
    /\ VideoEncoderOf(args) = "libx265"
    /\ ~HasFlag(args, {"-b:v", "-crf"})

\* C29: in simple mode, for an encoder that is not pass-through, a hardware
\* encoder gets only the bitrate of the tier (6000k, 4000k, 2000k for high,
\* medium, low), any other encoder the constant quality of the tier (18, 23,
\* 28) and the preset medium; and 720p, medium, GPU off, target mp4 build
\* scale to height 720, libx264, constant quality 23 with preset medium,
\* audio aac at 192k.
C29_SimpleQualityTable ==
    (apc = "built" /\ ~opts.advanced) =>
        /\ RequestedEncoder(opts) # "copy" =>
              /\ ~HasFlag(args, {"-maxrate", "-x264-params", "-refs"})
              /\ IF HardwareEncoder
                 THEN /\ PairCount(args, "-b:v",
                             CASE opts.quality = "high" -> "6000k"
                               [] opts.quality = "medium" -> "4000k"
                               [] opts.quality = "low" -> "2000k") = 1
                      /\ Cardinality({i \in 1..Len(args) : args[i] = "-b:v"}) = 1
                      /\ ~HasFlag(args, {"-crf", "-preset"})
                 ELSE /\ PairCount(args, "-crf",
                             CASE opts.quality = "high" -> "18"
                               [] opts.quality = "medium" -> "23"
                               [] opts.quality = "low" -> "28") = 1
                      /\ Cardinality({i \in 1..Len(args) : args[i] = "-crf"}) = 1
                      /\ PairCount(args, "-preset", "medium") = 1
                      /\ ~HasFlag(args, {"-b:v"})
        /\ ( /\ opts.resolution = "720p" /\ opts.quality = "medium"
             /\ ~opts.use_gpu /\ opts.out_format = "mp4" ) =>
              args = <<"-i", "in/a.mkv", "-vf", "scale=-2:720",
                       "-c:v", "libx264", "-crf", "23", "-preset", "medium",
                       "-c:a", "aac", "-b:a", "192k", "-y", "out/a.mp4">>

\* The example of the claim, built.
C29_Witness ==
    /\ apc = "built"
    /\ ~opts.advanced
    /\ opts.resolution = "720p"
    /\ opts.quality = "medium"
    /\ ~opts.use_gpu
    /\ opts.out_format = "mp4"
    /\ PairCount(args, "-vf", "scale=-2:720") = 1
    /\ PairCount(args, "-crf", "23") = 1

\* The flags of the audio stream.
AudioFlags == {"-c:a", "-ac", "-ar", "-b:a"}

\* C30: a gif target builds no audio argument; simple mode builds the audio
\* encoder aac and the bitrate 192k; advanced mode with the audio encoder
\* "copy" builds the copy directive and no other audio argument, and with
\* any other audio encoder builds none of audio encoder, channel count,
\* sample rate and bitrate that is at "original".
C30_AudioArgs ==
    apc = "built" =>
        IF opts.out_format = "gif" THEN ~HasFlag(args, AudioFlags)
        ELSE IF ~opts.advanced
        THEN /\ PairCount(args, "-c:a", "aac") = 1
             /\ PairCount(args, "-b:a", "192k") = 1
             /\ ~HasFlag(args, {"-ac", "-ar"})
        ELSE IF opts.a_encoder = "copy"
        THEN /\ PairCount(args, "-c:a", "copy") = 1
             /\ ~HasFlag(args, {"-ac", "-ar", "-b:a"})
        ELSE /\ opts.a_encoder = "original" => ~HasFlag(args, {"-c:a"})
             /\ opts.a_channels = "original" => ~HasFlag(args, {"-ac"})
             /\ opts.a_samplerate = "original" => ~HasFlag(args, {"-ar"})
             /\ opts.a_bitrate = "original" => ~HasFlag(args, {"-b:a"})

\* C31: the argument list of an audio task is, whatever the input path,
\* target format and bitrate: input flag, input path, no-video flag,
\* audio-bitrate flag, the bitrate, overwrite flag, output path, and nothing
\* else; so that tasks differing in target format only differ in the output
\* path only.
C31_AudioArgsFixedShape ==
    (apc = "built" /\ opts.kind = "audio") =>
        /\ Len(args) = 7
        /\ args[1] = "-i" /\ args[2] = opts.input_path
        /\ args[3] = "-vn"
        /\ args[4] = "-b:a" /\ args[5] = opts.bitrate
        /\ args[6] = "-y" /\ args[7] = opts.output_path
        /\ (opts.input_path = "song.wav" /\ opts.out_format = "mp3"
              /\ opts.bitrate = "192k") =>
              args = <<"-i", "song.wav", "-vn", "-b:a", "192k", "-y", "out/song.mp3">>

\* The example of the claim, built.
C31_Witness ==
    /\ apc = "built"
    /\ opts.kind = "audio"
    /\ opts.input_path = "song.wav"
    /\ opts.out_format = "mp3"
    /\ opts.bitrate = "192k"
    /\ args[7] = "out/song.mp3"

\* The base name of each input without its last extension.
StemOf ==
    ( "in/a.mkv" :> "a" @@ "x/a.wav" :> "a" @@ "a.wav" :> "a"
        @@ "in/a.b.wav" :> "a.b" @@ "song.wav" :> "song" )

\* C32: once a task is constructed, audio or video, run or not, its output
\* path spells the output directory, a separator unless the directory ends
\* with one, the input's base name without its last extension, a dot and
\* the target format; inputs of the same stem in different directories and
\* with different extensions get the same output path.
C32_OutputPathDerivation ==
    apc \in {"new", "built"} =>
        LET dir == Spelling[opts.output_dir]
            sep == IF dir[Len(dir)] = "/" THEN <<>> ELSE <<"/">>
        IN  /\ opts.kind \in {"audio", "video"}
            /\ Spelling[opts.output_path] =
                   dir \o sep \o Spelling[StemOf[opts.input_path]]
                       \o <<".">> \o Spelling[opts.out_format]

\* A video task constructed, not run, for an input with two dots in a
\* directory of its own.
C32_Witness ==
    /\ apc = "new"
    /\ opts.kind = "video"
    /\ opts.input_path = "in/a.b.wav"
    /\ opts.out_format = "mp4"
    /\ opts.output_path = "out/a.b.mp4"

\* C33: a task whose flag was set by stop() before run() never reaches the
\* read of the diagnostic stream nor any line after the loop, so it reads
\* nothing and never reports success; its only progress_cb call is the
\* initial 0; and when run() has returned, done_cb has been called exactly
\* once, with success false, and a spawned child is not alive.
C33_StoppedBeforeRun ==
    \A t \in Tasks : stopAt[t] = "idle" =>
        /\ pc[t] \in {"idle", "l113", "l130", "l132", "ret"}
        /\ buffer[t] = <<>>
        /\ ProgressEvents(t) \in {<<>>, <<Progress(t, 0, "Getting info...")>>}
        /\ \A k \in 1..Len(DoneEvents(t)) : ~DoneEvents(t)[k].ok
        /\ pc[t] = "ret" =>
              /\ Len(DoneEvents(t)) = 1
              /\ proc[t] # "alive"
              /\ proc[t] = "exited" =>
                    DoneEvents(t) = <<Done(t, FALSE, MsgCancelled, 0)>>

\* stop() first, then run(): the child was spawned, wrote to its stream and
\* was killed by the loop's first test with everything it wrote unread.
C33_Witness ==
    /\ stopAt[1] = "idle"
    /\ pc[1] = "ret"
    /\ proc[1] = "exited"
    /\ code[1] = Killed
    /\ pipe[1] # <<>>
    /\ DoneEvents(1) = <<Done(1, FALSE, MsgCancelled, 0)>>

\* A job: a runner the bridge has constructed.  Its callback has fired when
\* the worker is past line 420; it was cancelled when a converter_cancel
\* has found it.
JobMade(j) == rpc[j] # "none"
CallbackFired(j) == rpc[j] = "end"
Cancelled(j) == cid[j] # "none"

\* C34: every job whose batch-done callback has not fired and that was not
\* cancelled is what the registry holds under its job_id, whatever calls
\* of converter_start and converter_cancel were made.
C34_RegistryMapsLiveJobs ==
    \A j \in Jobs :
        (JobMade(j) /\ ~CallbackFired(j) /\ ~Cancelled(j)) => registry[rid[j]] = j

\* all_done_cb calls of job j.
AllDoneCount(j) ==
    Cardinality({k \in 1..Len(revents[j]) : revents[j][k].kind = "all_done"})
\* converter_cancel has found job j, stopped it and returned ok.
CancelReturned(j) == Cancelled(j) /\ cpc[j] = "none"

\* C35: when converter_cancel(job_id) returns ok the registry has no entry
\* for job_id; a converter_cancel that finds no entry in an existing
\* registry returns 'Job not found.' and changes no runner; and the
\* batch-done callback of a cancelled job fires, exactly once.
C35_CancelThenDone ==
    /\ [][\A j \in Jobs : CancelPop(j) => registry'[cid[j]] = "none"]_vars
    /\ [][\A id \in JobIds : (hasJobs /\ CancelNone(id)) =>
              /\ apiret' = Ret("cancel", FALSE, MsgJobNotFound)
              /\ UNCHANGED <<jobsVars, registry>>]_vars
    /\ [](\A j \in Jobs : AllDoneCount(j) <= 1)
    /\ [](\A j \in Jobs : CallbackFired(j) => AllDoneCount(j) = 1)
    /\ \A j \in Jobs : CancelReturned(j) ~> CallbackFired(j)

\* C36: a converter_start that returns an error registers no runner, makes
\* no registry, starts no worker, spawns no process and calls no callback:
\* it changes nothing but what it returns.
C36_StartErrorChangesNothing ==
    [][\A id \in JobIds : \A e \in StartErrors : StartError(id, e) =>
          /\ apiret' = Ret("start", FALSE, e)
          /\ UNCHANGED <<hasJobs, registry, rid, rout>>
          /\ UNCHANGED <<rpc, rtask, revents, rstop, rcur>>]_vars

\* An unknown mode was refused while the job started before it converts.
C36_Witness ==
    /\ apiret = Ret("start", FALSE, MsgBadMode)
    /\ rpc["jobA"] = "l417"
    /\ rtask["jobA"][1].proc = "alive"
    /\ rpc["jobB"] = "none"
    /\ registry[rid["jobA"]] = "jobA"
    /\ Cardinality({id \in JobIds : registry[id] # "none"}) = 1

\* The child of task t of job j is alive and writes to rout[j][t].
Writing(j, t) == JobMade(j) /\ rtask[j][t].proc = "alive"

\* C37: no two live child processes write to the same output path.
C37_NoSharedOutputPath ==
    \A j, k \in Jobs : \A t, u \in JobTasks :
        (<<j, t>> # <<k, u>> /\ Writing(j, t) /\ Writing(k, u)) =>
            rout[j][t] # rout[k][u]

\* The probe of task t's duration returned 0 ('Duration: 00:00:00').
ProbedZero(t) == pc[t] # "idle" /\ dur[t] = <<0>>

\* C38: a probed duration of 0 is treated like an unknown one.  The line
\* being read gives no percentage whatever it holds, so every progress_cb
\* call is the initial 0 or the final 100; and a task that has returned
\* after the child's exit has made one done_cb call, which is the
\* cancellation if the flag was set and else what the exit code says.
C38_ZeroDurationLikeUnknown ==
    \A t \in Tasks : ProbedZero(t) =>
        /\ LineEvents(t, Append(buffer[t], NL), dur[t]) = <<>>
        /\ \A k \in 1..Len(ProgressEvents(t)) :
              ProgressEvents(t)[k] \in
                  {Progress(t, 0, "Getting info..."), Progress(t, 100, "Done!")}
        /\ (pc[t] = "ret" /\ exit_code[t] # <<>>) =>
              /\ Len(DoneEvents(t)) = 1
              /\ \/ DoneEvents(t)[1] = Done(t, FALSE, MsgCancelled, 0)
                 \/ /\ exit_code[t][1] = 0
                    /\ DoneEvents(t)[1] = Done(t, TRUE, MsgComplete, 0)
                 \/ /\ exit_code[t][1] # 0
                    /\ DoneEvents(t)[1] = Done(t, FALSE, MsgExit, exit_code[t][1])
              /\ ~stopFlag[t] =>
                    DoneEvents(t)[1] # Done(t, FALSE, MsgCancelled, 0)

\* With a duration of 0 the worker has read a time marker and is about to
\* read the end of its line, the child having exited with code 0; nothing
\* but the initial 0 was reported.
C38_Witness ==
    /\ ProbedZero(1)
    /\ pc[1] = "l135"
    /\ buffer[1] = <<TimeTok(0, 0, 1)>>
    /\ pipe[1] = <<NL>>
    /\ proc[1] = "exited"
    /\ code[1] = 0
    /\ ~stopFlag[1]
    /\ ProgressEvents(1) = <<Progress(1, 0, "Getting info...")>>

====
